---------------------------- MODULE Spec2Model ----------------------------
(***************************************************************************)
(* State-machine model of the academic records service (Express + Mongoose *)
(* route handlers).  The database collections are the state.  Every route  *)
(* handler is an operator, translated branch by branch from its source,    *)
(* that gives the response (its HTTP status, and for a list the documents  *)
(* the query selects) and the collection as the handler leaves it; the     *)
(* action of a handler applies that operator to the store.                 *)
(*                                                                         *)
(* Documents of a collection are kept in a sequence: the position of a     *)
(* document is its _id, a deleted document leaves the tombstone Gone, so   *)
(* an _id is never handed out twice (ObjectIds are unique).  A reference   *)
(* is an _id; None (0) is an absent value.                                 *)
(***************************************************************************)
EXTENDS Naturals, Integers, Sequences, FiniteSets, TLC

\* ------------------------------------------------------------------ bounds
MaxUsers       == 6   \* documents ever created in the users collection
MaxCourses     == 2   \* ... in the courses collection
MaxAssignments == 2
MaxGrades      == 2
MaxAttendance  == 2
MaxInfractions == 1
MaxRecords     == 2   \* tuples in one bulk attendance request
NProcs         == 2   \* requests that can be in flight at the same time
MaxScores      == 4   \* grades of one course in the statistics
MaxClock       == 2   \* the last instant of the clock

\* ------------------------------------------------------------------ values
None  == 0
Roles == {"admin", "teacher", "student"}
Gone  == [live |-> FALSE]

Codes  == {"k1", "k2"}          \* courseCode values
Days   == {1, 2}                \* calendar days
Times  == {0, 1}                \* time of day inside one calendar day
Dates  == Days \X Times         \* a Date value: <<day, time of day>>

VARIABLES
  users,        \* User documents        (src/unnamed/part_001)
  courses,      \* Course documents      (src/models/Course.js)
  assignments,  \* Assignment documents  (src/models/Assignment.js)
  grades,       \* Grade documents       (src/unnamed/part_002)
  attendance,   \* Attendance documents  (src/models/Attendance.js)
  infractions,  \* Infraction documents  (src/models/Infraction.js)
  tokens,       \* verified token payloads {id, role} in circulation
  procs,        \* requests in flight between two awaits (interleaved handlers)
  clock         \* the time Date.now() and new Date() return

db   == <<users, courses, assignments, grades, attendance, infractions>>
vars == <<users, courses, assignments, grades, attendance, infractions,
          tokens, procs, clock>>

\* ------------------------------------------------------------------ helpers
Ids(store)      == 1..Len(store)
Live(store, id) == id \in Ids(store) /\ store[id].live
LiveIds(store)  == {id \in Ids(store) : store[id].live}

\* Model.findById(id): the _id of the live document, else null.
findById(store, id) == IF Live(store, id) THEN id ELSE None

\* query.populate(path): a reference whose document is gone is populated as null.
populate(store, ref) == findById(store, ref)

\* Model.findByIdAndDelete(id) on a store: the document becomes a tombstone.
Remove(store, id) == [store EXCEPT ![id] = Gone]

\* MongooseArray.includes(id): membership by value (ids are cast before comparing).
includes(arr, id) == \E i \in 1..Len(arr) : arr[i] = id

\* User.findOne({ _id: id, role: role })
findUserWithRole(id, role) ==
  IF Live(users, id) /\ users[id].role = role THEN id ELSE None

\* A string field of a request body: NoField when the body has no such field.
\* JavaScript truthiness of a string: a missing field and "" are both falsy.
NoField   == "<absent>"
Truthy(v) == v # NoField /\ v # ""

\* authorizeRoles without the membership test: any authenticated role passes.
authorizeRolesAnyRole(roles, who) == who.role \in roles \cup Roles

\* authorizeRoles(roles): the role of the token payload must be listed.
authorizeRoles(roles, who) == who.role \in roles

\* ------------------------------------------------------------------ users
\* (src/unnamed/part_004, routes/users.js)
NewUser(firstName, lastName, email, role) ==
  [live |-> TRUE, role |-> role, firstName |-> firstName,
   lastName |-> lastName, email |-> email]

\* the unique index on email
emailInUse(email, except) ==
  \E u \in LiveIds(users) : u # except /\ users[u].email = email

\* POST /users
UsersPost(who, firstName, lastName, email, role) ==
  LET status ==
        IF ~authorizeRoles({"admin"}, who) THEN 403
        ELSE IF ~Truthy(firstName) \/ ~Truthy(lastName) \/ email = None \/ ~Truthy(role)
          THEN 400
        ELSE IF emailInUse(email, None) THEN 400
        ELSE 201
  IN [status |-> status,
      users  |-> IF status = 201
                   THEN Append(users, NewUser(firstName, lastName, email, role))
                   ELSE users]

\* GET /users
UsersList(who) ==
  LET status == IF who.role # "admin" /\ who.role # "teacher" THEN 403 ELSE 200
      query  == {u \in LiveIds(users) : users[u].role = "student"}
  IN [status |-> status, res |-> IF status = 200 THEN query ELSE {}]

\* GET /users/:id
UsersGet(who, id) ==
  [status |-> IF who.role # "admin" /\ who.id # id THEN 403
              ELSE IF findById(users, id) = None THEN 404
              ELSE 200]

\* PUT /users/:id without the role guard: the role of the body is applied for any caller.
UsersPutAnyRole(who, id, firstName, lastName, email, role) ==
  LET updateData(user) ==
        [user EXCEPT
           !.firstName = IF Truthy(firstName) THEN firstName ELSE @,
           !.lastName  = IF Truthy(lastName) THEN lastName ELSE @,
           !.email     = IF email # None THEN email ELSE @,
           !.role      = IF Truthy(role) THEN role ELSE @]
      status ==
        IF who.role # "admin" /\ who.id # id THEN 403
        ELSE IF findById(users, id) = None THEN 404
        ELSE IF email # None /\ emailInUse(email, id) THEN 500
        ELSE 200
  IN [status |-> status,
      users  |-> IF status = 200 THEN [users EXCEPT ![id] = updateData(@)] ELSE users]

\* PUT /users/:id
UsersPut(who, id, firstName, lastName, email, role) ==
  LET updateData(user) ==
        [user EXCEPT
           !.firstName = IF Truthy(firstName) THEN firstName ELSE @,
           !.lastName  = IF Truthy(lastName) THEN lastName ELSE @,
           !.email     = IF email # None THEN email ELSE @,
           !.role      = IF Truthy(role) /\ who.role = "admin" THEN role ELSE @]
      status ==
        IF who.role # "admin" /\ who.id # id THEN 403
        ELSE IF who.role # "admin" /\ Truthy(role) THEN 403
        ELSE IF findById(users, id) = None THEN 404
        \* unique index on email: the update is refused by the store
        ELSE IF email # None /\ emailInUse(email, id) THEN 500
        ELSE 200
  IN [status |-> status,
      users  |-> IF status = 200 THEN [users EXCEPT ![id] = updateData(@)] ELSE users]

\* DELETE /users/:id
UsersDelete(who, id) ==
  LET status ==
        IF ~authorizeRoles({"admin"}, who) THEN 403
        ELSE IF findById(users, id) = None THEN 404
        ELSE 200
  IN [status |-> status,
      users  |-> IF status = 200 THEN Remove(users, id) ELSE users]

\* ------------------------------------------------------------------ courses
\* (src/server.js from line 104, routes/courses.js)
NewCourse(name, courseCode, teacherId) ==
  [live |-> TRUE, name |-> name, courseCode |-> courseCode,
   teacherId |-> teacherId, students |-> <<>>]

\* course.teacherId.toString() !== req.user.id
notTeacherOf(course, who) == courses[course].teacherId # who.id

\* CoursesPost that stores the teacherId of the request as it is, without the
\* default of the caller's id
CoursesPostNoDefault(who, name, courseCode, teacherId) ==
  LET existingCourse == \E c \in LiveIds(courses) : courses[c].courseCode = courseCode
      status ==
        IF ~authorizeRoles({"admin", "teacher"}, who) THEN 403
        ELSE IF existingCourse THEN 400
        ELSE IF teacherId # None /\ findUserWithRole(teacherId, "teacher") = None THEN 400
        ELSE 201
  IN [status  |-> status,
      courses |-> IF status = 201
                    THEN Append(courses, NewCourse(name, courseCode, teacherId))
                    ELSE courses]

\* POST /courses
CoursesPost(who, name, courseCode, teacherId) ==
  LET existingCourse == \E c \in LiveIds(courses) : courses[c].courseCode = courseCode
      status ==
        IF ~authorizeRoles({"admin", "teacher"}, who) THEN 403
        ELSE IF existingCourse THEN 400
        ELSE IF teacherId # None /\ findUserWithRole(teacherId, "teacher") = None THEN 400
        ELSE 201
      newCourse == NewCourse(name, courseCode,
                             IF teacherId # None THEN teacherId ELSE who.id)
  IN [status  |-> status,
      courses |-> IF status = 201 THEN Append(courses, newCourse) ELSE courses]

\* GET /courses ; teacherId is the req.query filter
CoursesList(who, teacherId) ==
  LET \* role-based filtering
      qTeacher  == IF who.role = "teacher" /\ teacherId = None THEN who.id ELSE teacherId
      qStudents == IF who.role = "student" THEN who.id ELSE None
      query == {c \in LiveIds(courses) :
                  /\ qTeacher # None => courses[c].teacherId = qTeacher
                  /\ qStudents # None => includes(courses[c].students, qStudents)}
  IN [status |-> 200, res |-> query]

\* GET /courses/:id ; teacherId and students are populated
CoursesGet(who, id) ==
  LET course == findById(courses, id)
  IN [status |->
        IF course = None THEN 404
        \* populate drops the students whose User document is gone
        ELSE IF who.role = "student"
                /\ ~(includes(courses[course].students, who.id) /\ Live(users, who.id))
          THEN 403
        ELSE IF who.role = "teacher"
          THEN IF populate(users, courses[course].teacherId) = None
                 THEN 500     \* course.teacherId._id on null: TypeError
                 ELSE IF notTeacherOf(course, who) THEN 403 ELSE 200
        ELSE 200]

\* PUT /courses/:id
CoursesPut(who, id, name, teacherId) ==
  LET course == findById(courses, id)
      status ==
        IF ~authorizeRoles({"admin", "teacher"}, who) THEN 403
        ELSE IF course = None THEN 404
        ELSE IF who.role = "teacher" /\ notTeacherOf(course, who) THEN 403
        ELSE IF teacherId # None /\ who.role = "admin"
                /\ findUserWithRole(teacherId, "teacher") = None THEN 400
        ELSE 200
      updated(c) ==
        [c EXCEPT !.name = IF Truthy(name) THEN name ELSE @,
                  !.teacherId = IF teacherId # None /\ who.role = "admin"
                                  THEN teacherId ELSE @]
  IN [status  |-> status,
      courses |-> IF status = 200 THEN [courses EXCEPT ![id] = updated(@)] ELSE courses]

\* DELETE /courses/:id ; no dependent document is touched
CoursesDelete(who, id) ==
  LET status ==
        IF ~authorizeRoles({"admin"}, who) THEN 403
        ELSE IF findById(courses, id) = None THEN 404
        ELSE 200
  IN [status  |-> status,
      courses |-> IF status = 200 THEN Remove(courses, id) ELSE courses]

\* course.students.push(studentId); course.save(): the mapped array sends the
\* pushed element as a $push, which the store applies to the array it holds.
pushStudent(store, id, studentId) ==
  [store EXCEPT ![id].students = Append(@, studentId)]

\* course.students = course.students.filter(id => id.toString() !== studentId)
withoutStudent(arr, studentId) == SelectSeq(arr, LAMBDA s : s # studentId)

\* the checks of POST /courses/:id/enroll that follow Course.findById
enrollCourseChecks(who, id) ==
  LET course == findById(courses, id)
  IN IF ~authorizeRoles({"admin", "teacher"}, who) THEN 403
     ELSE IF course = None THEN 404
     ELSE IF who.role = "teacher" /\ notTeacherOf(course, who) THEN 403
     ELSE 0

\* enrollStudentChecks without the course.students.includes(studentId) test
enrollStudentChecksNoIncludes(students, studentId) ==
  IF findUserWithRole(studentId, "student") = None THEN 400
  ELSE 0

\* the checks that follow User.findOne, on the students array read earlier
enrollStudentChecks(students, studentId) ==
  IF findUserWithRole(studentId, "student") = None THEN 400
  ELSE IF includes(students, studentId) THEN 400
  ELSE 0

\* CoursesEnroll answering 200 to an already enrolled student, without a push
CoursesEnrollIgnoresEnrolled(who, id, studentId) ==
  LET c1 == enrollCourseChecks(who, id)
      status == IF c1 # 0 THEN c1
                ELSE IF findUserWithRole(studentId, "student") = None THEN 400
                ELSE 200
  IN [status  |-> status,
      courses |-> IF status = 200 /\ ~includes(courses[id].students, studentId)
                    THEN pushStudent(courses, id, studentId) ELSE courses]

\* POST /courses/:id/enroll, handled without interleaving
CoursesEnroll(who, id, studentId) ==
  LET c1 == enrollCourseChecks(who, id)
      c2 == enrollStudentChecks(courses[id].students, studentId)
      status == IF c1 # 0 THEN c1 ELSE IF c2 # 0 THEN c2 ELSE 200
  IN [status  |-> status,
      courses |-> IF status = 200 THEN pushStudent(courses, id, studentId) ELSE courses]

\* CoursesUnenroll answering 400 when the student is not in the array
CoursesUnenrollNeedsEnrolled(who, id, studentId) ==
  LET c1 == enrollCourseChecks(who, id)
      status == IF c1 # 0 THEN c1
                ELSE IF ~includes(courses[id].students, studentId) THEN 400
                ELSE 200
  IN [status  |-> status,
      courses |-> IF status = 200
                    THEN [courses EXCEPT ![id].students = withoutStudent(@, studentId)]
                    ELSE courses]

\* DELETE /courses/:id/students/:studentId, handled without interleaving
CoursesUnenroll(who, id, studentId) ==
  LET c1 == enrollCourseChecks(who, id)
      status == IF c1 # 0 THEN c1 ELSE 200
  IN [status  |-> status,
      courses |-> IF status = 200
                    THEN [courses EXCEPT ![id].students = withoutStudent(@, studentId)]
                    ELSE courses]

\* ------------------------------------------------------------------ assignments
\* (src/unnamed/part_003, routes/assignments.js)
NewAssignment(title, courseId, createdBy) ==
  [live |-> TRUE, title |-> title, courseId |-> courseId, createdBy |-> createdBy]

\* Course.find({ students: id }) and Course.find({ teacherId: id })
coursesOfStudent(id) == {c \in LiveIds(courses) : includes(courses[c].students, id)}
coursesOfTeacher(id) == {c \in LiveIds(courses) : courses[c].teacherId = id}

\* const course = await Course.findById(ref);
\* if (!course || course.teacherId.toString() !== req.user.id) -> 403
teacherDenied(ref, who) ==
  LET course == findById(courses, ref)
  IN course = None \/ notTeacherOf(course, who)

\* if (!course || !course.students.includes(req.user.id)) -> 403
studentDenied(ref, who) ==
  LET course == findById(courses, ref)
  IN course = None \/ ~includes(courses[course].students, who.id)

\* POST /assignments
AssignmentsPost(who, title, courseId) ==
  LET course == findById(courses, courseId)
      status ==
        IF ~authorizeRoles({"admin", "teacher"}, who) THEN 403
        ELSE IF course = None THEN 404
        ELSE IF who.role = "teacher" /\ notTeacherOf(course, who) THEN 403
        ELSE 201
  IN [status      |-> status,
      assignments |-> IF status = 201
                        THEN Append(assignments, NewAssignment(title, courseId, who.id))
                        ELSE assignments]

\* GET /assignments ; courseId is the req.query filter
AssignmentsList(who, courseId) ==
  LET status ==
        IF courseId # None /\ who.role = "student" /\ studentDenied(courseId, who)
          THEN 403 ELSE 200
      query == {a \in LiveIds(assignments) :
                  IF courseId # None THEN assignments[a].courseId = courseId
                  ELSE IF who.role = "student"
                    THEN assignments[a].courseId \in coursesOfStudent(who.id)
                  ELSE IF who.role = "teacher"
                    THEN assignments[a].courseId \in coursesOfTeacher(who.id)
                  ELSE TRUE}
  IN [status |-> status, res |-> IF status = 200 THEN query ELSE {}]

\* GET /assignments/:id ; courseId is populated, then looked up again
AssignmentsGet(who, id) ==
  LET assignment == findById(assignments, id)
      courseId == populate(courses, assignments[assignment].courseId)
  IN [status |->
        IF assignment = None THEN 404
        ELSE IF who.role = "student" /\ studentDenied(courseId, who) THEN 403
        ELSE IF who.role = "teacher" /\ teacherDenied(courseId, who) THEN 403
        ELSE 200]

\* the permission check shared by PUT and DELETE /assignments/:id
assignmentWriteStatus(who, id) ==
  LET assignment == findById(assignments, id)
  IN IF ~authorizeRoles({"admin", "teacher"}, who) THEN 403
     ELSE IF assignment = None THEN 404
     ELSE IF who.role = "teacher" /\ teacherDenied(assignments[assignment].courseId, who)
       THEN 403
     ELSE 200

\* PUT /assignments/:id
AssignmentsPut(who, id, title) ==
  LET status == assignmentWriteStatus(who, id)
  IN [status      |-> status,
      assignments |-> IF status = 200 /\ Truthy(title)
                        THEN [assignments EXCEPT ![id].title = title]
                        ELSE assignments]

\* DELETE /assignments/:id
AssignmentsDelete(who, id) ==
  LET status == assignmentWriteStatus(who, id)
  IN [status      |-> status,
      assignments |-> IF status = 200 THEN Remove(assignments, id) ELSE assignments]

\* ------------------------------------------------------------------ grades
\* (src/routes/grades.js lines 1-463, routes/grades.js)
NoScore == -1                   \* req.body.score undefined
Scores  == {0, 85}              \* 0 is the falsy score

NewGrade(studentId, courseId, score, gradedBy) ==
  [live |-> TRUE, studentId |-> studentId, courseId |-> courseId,
   score |-> score, gradedBy |-> gradedBy, gradedAt |-> clock]

\* GradesPost without the course.students.includes(studentId) test
GradesPostAnyStudent(who, studentId, courseId, score) ==
  LET course == findById(courses, courseId)
      status ==
        IF ~authorizeRoles({"admin", "teacher"}, who) THEN 403
        ELSE IF studentId = None \/ courseId = None \/ score = NoScore \/ score = 0 THEN 400
        ELSE IF findUserWithRole(studentId, "student") = None THEN 400
        ELSE IF course = None THEN 400
        ELSE IF who.role = "teacher" /\ notTeacherOf(course, who) THEN 403
        ELSE 201
  IN [status |-> status,
      grades |-> IF status = 201
                   THEN Append(grades, NewGrade(studentId, courseId, score, who.id))
                   ELSE grades]

\* GradesPost whose test of the score lets 0 through
GradesPostZeroAllowed(who, studentId, courseId, score) ==
  LET course == findById(courses, courseId)
      status ==
        IF ~authorizeRoles({"admin", "teacher"}, who) THEN 403
        ELSE IF studentId = None \/ courseId = None \/ score = NoScore THEN 400
        ELSE IF findUserWithRole(studentId, "student") = None THEN 400
        ELSE IF course = None THEN 400
        ELSE IF ~includes(courses[course].students, studentId) THEN 400
        ELSE IF who.role = "teacher" /\ notTeacherOf(course, who) THEN 403
        ELSE 201
  IN [status |-> status,
      grades |-> IF status = 201
                   THEN Append(grades, NewGrade(studentId, courseId, score, who.id))
                   ELSE grades]

\* POST /grades
GradesPost(who, studentId, courseId, score) ==
  LET course == findById(courses, courseId)
      status ==
        IF ~authorizeRoles({"admin", "teacher"}, who) THEN 403
        \* !studentId || !courseId || !score
        ELSE IF studentId = None \/ courseId = None \/ score = NoScore \/ score = 0 THEN 400
        ELSE IF findUserWithRole(studentId, "student") = None THEN 400
        ELSE IF course = None THEN 400
        ELSE IF ~includes(courses[course].students, studentId) THEN 400
        ELSE IF who.role = "teacher" /\ notTeacherOf(course, who) THEN 403
        ELSE 201
  IN [status |-> status,
      grades |-> IF status = 201
                   THEN Append(grades, NewGrade(studentId, courseId, score, who.id))
                   ELSE grades]

\* GET /grades ; studentId and courseId are the req.query filters
GradesList(who, studentId, courseId) ==
  LET status ==
        IF who.role = "teacher" /\ courseId # None /\ teacherDenied(courseId, who)
          THEN 403 ELSE 200
      qStudent == IF who.role = "student" THEN who.id ELSE studentId
      scoped   == who.role = "teacher" /\ courseId = None /\ studentId = None
      query == {g \in LiveIds(grades) :
                  /\ qStudent # None => grades[g].studentId = qStudent
                  /\ IF scoped THEN grades[g].courseId \in coursesOfTeacher(who.id)
                     ELSE courseId # None => grades[g].courseId = courseId}
  IN [status |-> status, res |-> IF status = 200 THEN query ELSE {}]

\* GET /grades/:id ; studentId and courseId are populated
GradesGet(who, id) ==
  LET grade == findById(grades, id)
  IN [status |->
        IF grade = None THEN 404
        ELSE IF who.role = "student"
          THEN IF populate(users, grades[grade].studentId) = None
                 THEN 500     \* grade.studentId._id on null: TypeError
                 ELSE IF grades[grade].studentId # who.id THEN 403 ELSE 200
        ELSE IF who.role = "teacher"
          THEN IF populate(courses, grades[grade].courseId) = None
                 THEN 500     \* grade.courseId.teacherId on null: TypeError
                 ELSE IF notTeacherOf(grades[grade].courseId, who) THEN 403 ELSE 200
        ELSE 200]

\* the permission check shared by PUT and DELETE /grades/:id ; courseId is populated
gradeWriteStatus(who, id) ==
  LET grade == findById(grades, id)
  IN IF ~authorizeRoles({"admin", "teacher"}, who) THEN 403
     ELSE IF grade = None THEN 404
     ELSE IF who.role = "teacher"
       THEN IF populate(courses, grades[grade].courseId) = None
              THEN 500     \* grade.courseId.teacherId on null: TypeError
              ELSE IF notTeacherOf(grades[grade].courseId, who) THEN 403 ELSE 200
     ELSE 200

\* GradesPut that leaves the grader and the time of grading as they are
GradesPutKeepsStamp(who, id, score) ==
  LET status == gradeWriteStatus(who, id)
  IN [status |-> status,
      grades |-> IF status = 200
                   THEN [grades EXCEPT ![id].score = IF score # NoScore THEN score ELSE @]
                   ELSE grades]

\* PUT /grades/:id
GradesPut(who, id, score) ==
  LET status == gradeWriteStatus(who, id)
  IN [status |-> status,
      grades |-> IF status = 200
                   THEN [grades EXCEPT ![id].score = IF score # NoScore THEN score ELSE @,
                                       ![id].gradedAt = clock,
                                       ![id].gradedBy = who.id]
                   ELSE grades]

\* DELETE /grades/:id
GradesDelete(who, id) ==
  LET status == gradeWriteStatus(who, id)
  IN [status |-> status,
      grades |-> IF status = 200 THEN Remove(grades, id) ELSE grades]

\* ------------------------------------------------------------------ grade views
\* (src/routes/grades.js) the status of the three grade read routes

\* GET /grades/student/:studentId
GradesOfStudentStatus(who, studentId) ==
  IF who.role = "student" /\ who.id # studentId THEN 403
  ELSE IF who.role = "teacher"
          /\ ~\E c \in coursesOfTeacher(who.id) : includes(courses[c].students, studentId)
    THEN 403
  ELSE 200

\* GET /grades/student/:studentId : Grade.find({ studentId }), and of these the
\* grades whose populated courseId is a document with a name
GradesOfStudent(who, studentId) ==
  LET status == GradesOfStudentStatus(who, studentId)
  IN IF status # 200 THEN [status |-> status, res |-> {}]
     ELSE [status |-> 200,
           res |-> {g \in LiveIds(grades) :
                      /\ grades[g].studentId = studentId
                      /\ populate(courses, grades[g].courseId) # None}]

\* GET /grades/course/:courseId ; studentId is populated
GradesOfCourseStatus(who, courseId) ==
  LET course == findById(courses, courseId)
  IN IF course = None THEN 404
     ELSE IF who.role = "student"
       THEN IF ~includes(courses[course].students, who.id) THEN 403
            \* grades.filter(grade => grade.studentId._id ...) on null: TypeError
            ELSE IF \E g \in LiveIds(grades) :
                      /\ grades[g].courseId = courseId
                      /\ populate(users, grades[g].studentId) = None
              THEN 500
            ELSE 200
     ELSE IF who.role = "teacher" /\ notTeacherOf(course, who) THEN 403
     ELSE 200

\* GET /grades/stats/course/:courseId
GradesStatsStatus(who, courseId) ==
  LET course == findById(courses, courseId)
  IN IF course = None THEN 404
     ELSE IF who.role = "student" /\ ~includes(courses[course].students, who.id) THEN 403
     ELSE IF who.role = "teacher" /\ notTeacherOf(course, who) THEN 403
     ELSE 200

\* ------------------------------------------------------------------ statistics
\* (src/routes/grades.js, GET /grades/stats/course/:courseId)
\* A JavaScript number that is the quotient of two integers; null is its own value.
Quot(n, d) == [null |-> FALSE, num |-> n, den |-> d]
Null       == [null |-> TRUE]

\* a === b for numbers and null
SameNumber(a, b) ==
  IF a.null \/ b.null THEN a.null /\ b.null
  ELSE a.num * b.den = b.num * a.den

\* Grade.find({ courseId }).select('score') and grades.map(grade => grade.score):
\* the scores of the live grades of the course, in the order of the store
RECURSIVE scoresFrom(_, _)
scoresFrom(courseId, g) ==
  IF g > Len(grades) THEN <<>>
  ELSE IF grades[g].live /\ grades[g].courseId = courseId
    THEN <<grades[g].score>> \o scoresFrom(courseId, g + 1)
  ELSE scoresFrom(courseId, g + 1)

\* scores.reduce((a, b) => a + b, 0)
RECURSIVE reduceSum(_)
reduceSum(scores) ==
  IF scores = <<>> THEN 0 ELSE Head(scores) + reduceSum(Tail(scores))

\* Math.max(...scores) and Math.min(...scores), of at least one score
RECURSIVE mathMax(_)
mathMax(scores) ==
  IF Len(scores) = 1 THEN scores[1]
  ELSE LET m == mathMax(Tail(scores)) IN IF Head(scores) > m THEN Head(scores) ELSE m

RECURSIVE mathMin(_)
mathMin(scores) ==
  IF Len(scores) = 1 THEN scores[1]
  ELSE LET m == mathMin(Tail(scores)) IN IF Head(scores) < m THEN Head(scores) ELSE m

\* the position of x in an ascending sequence: after the elements not above it
RECURSIVE insertSorted(_, _)
insertSorted(sorted, x) ==
  IF sorted = <<>> THEN <<x>>
  ELSE IF x < Head(sorted) THEN <<x>> \o sorted
  ELSE <<Head(sorted)>> \o insertSorted(Tail(sorted), x)

\* the scores as they are stored, taken for the sorted ones
asStored(scores) == scores

\* [...scores].sort((a, b) => a - b)
RECURSIVE sortAscending(_)
sortAscending(scores) ==
  IF scores = <<>> THEN <<>>
  ELSE insertSorted(sortAscending(Tail(scores)), Head(scores))

\* midIndex = Math.floor(length / 2); the indexes of the source count from 0
median(scores) ==
  LET sortedScores == sortAscending(scores)
      midIndex     == Len(sortedScores) \div 2
  IN IF Len(sortedScores) % 2 = 0
       THEN Quot(sortedScores[midIndex] + sortedScores[midIndex + 1], 2)
       ELSE Quot(sortedScores[midIndex + 1], 1)

\* the stats object of the response
statsOf(scores) ==
  IF Len(scores) = 0
    THEN [count |-> 0, average |-> Null, highest |-> Null, lowest |-> Null,
          median |-> Null]
    ELSE [count   |-> Len(scores),
          average |-> Quot(reduceSum(scores), Len(scores)),
          highest |-> Quot(mathMax(scores), 1),
          lowest  |-> Quot(mathMin(scores), 1),
          median  |-> median(scores)]

\* GET /grades/stats/course/:courseId
GradesStats(who, courseId) ==
  LET status == GradesStatsStatus(who, courseId)
  IN IF status # 200 THEN [status |-> status]
     ELSE [status |-> 200, stats |-> statsOf(scoresFrom(courseId, 1))]

\* ------------------------------------------------------------------ infractions
\* (src/routes/grades.js lines 464-663, routes/infractions.js)
NewInfraction(studentId, description, reportedBy) ==
  [live |-> TRUE, studentId |-> studentId, description |-> description,
   reportedBy |-> reportedBy]

\* POST /infractions
InfractionsPost(who, studentId, description) ==
  LET status ==
        IF ~authorizeRoles({"admin", "teacher"}, who) THEN 403
        ELSE IF findUserWithRole(studentId, "student") = None THEN 404
        ELSE 201
  IN [status      |-> status,
      infractions |-> IF status = 201
                        THEN Append(infractions,
                                    NewInfraction(studentId, description, who.id))
                        ELSE infractions]

\* GET /infractions ; studentId is the req.query filter
InfractionsList(who, studentId) ==
  LET qStudent == IF who.role = "student" THEN who.id ELSE studentId
      query == {i \in LiveIds(infractions) :
                  qStudent # None => infractions[i].studentId = qStudent}
  IN [status |-> 200, res |-> query]

\* GET /infractions/:id ; studentId is populated
InfractionsGet(who, id) ==
  LET infraction == findById(infractions, id)
  IN [status |->
        IF infraction = None THEN 404
        ELSE IF who.role = "student"
          THEN IF populate(users, infractions[infraction].studentId) = None
                 THEN 500     \* infraction.studentId._id on null: TypeError
                 ELSE IF infractions[infraction].studentId # who.id THEN 403 ELSE 200
        ELSE 200]

\* PUT /infractions/:id
InfractionsPut(who, id, description) ==
  LET status ==
        IF ~authorizeRoles({"admin", "teacher"}, who) THEN 403
        ELSE IF findById(infractions, id) = None THEN 404
        ELSE 200
  IN [status      |-> status,
      infractions |-> IF status = 200 /\ Truthy(description)
                        THEN [infractions EXCEPT ![id].description = description]
                        ELSE infractions]

\* DELETE /infractions/:id
InfractionsDelete(who, id) ==
  LET status ==
        IF ~authorizeRoles({"admin"}, who) THEN 403
        ELSE IF findById(infractions, id) = None THEN 404
        ELSE 200
  IN [status      |-> status,
      infractions |-> IF status = 200 THEN Remove(infractions, id) ELSE infractions]

\* ------------------------------------------------------------------ resolution
\* (src/routes/grades.js, the infraction routes; src/models/Infraction.js)
\* The paths of infractionSchema, as far as the documents of the model carry them.
InfractionPaths == {"live", "studentId", "description", "reportedBy"}

\* Mongoose strict mode: a value for a path that the schema does not declare is
\* neither stored by save() nor part of the document.
strict(doc, paths) == [f \in (DOMAIN doc) \cap paths |-> doc[f]]

\* resolution.trim()
trim(str) == IF str = " " THEN "" ELSE str

\* doc.path = value
set(doc, path, value) == [f \in {path} |-> value] @@ doc

\* new Infraction({ ..., resolution, resolved: !!resolution }); body holds the
\* fields of the request that are not undefined
newInfraction(who, studentId, description, body) ==
  LET doc == NewInfraction(studentId, description, who.id)
      withResolution ==
        IF "resolution" \in DOMAIN body THEN set(doc, "resolution", body.resolution)
        ELSE doc
      resolved == "resolution" \in DOMAIN body /\ body.resolution # ""
  IN strict(set(withResolution, "resolved", resolved), InfractionPaths)

\* POST /infractions with the resolution of the body
InfractionsPostBody(who, studentId, description, body) ==
  LET status == InfractionsPost(who, studentId, description).status
  IN [status      |-> status,
      infractions |-> IF status = 201
                        THEN Append(infractions,
                                    newInfraction(who, studentId, description, body))
                        ELSE infractions]

\* the update of the fields: resolution first, then an explicit resolved
updateInfraction(doc, description, body) ==
  LET d1 == IF Truthy(description) THEN set(doc, "description", description) ELSE doc
      d2 == IF "resolution" \in DOMAIN body
              THEN LET d == set(d1, "resolution", body.resolution)
                   IN IF body.resolution # "" /\ trim(body.resolution) # ""
                        THEN set(d, "resolved", TRUE) ELSE d
              ELSE d1
      d3 == IF "resolved" \in DOMAIN body THEN set(d2, "resolved", body.resolved) ELSE d2
  IN strict(d3, InfractionPaths)

\* PUT /infractions/:id with the resolution and the resolved of the body
InfractionsPutBody(who, id, description, body) ==
  LET status == InfractionsPut(who, id, description).status
  IN [status      |-> status,
      infractions |-> IF status = 200
                        THEN [infractions EXCEPT ![id] = updateInfraction(@, description, body)]
                        ELSE infractions]

\* ------------------------------------------------------------------ attendance
\* (src/routes/attendance.js)
NewAttendance(studentId, courseId, date, status, recordedBy) ==
  [live |-> TRUE, studentId |-> studentId, courseId |-> courseId, date |-> date,
   status |-> IF Truthy(status) THEN status ELSE "absent", recordedBy |-> recordedBy,
   recordedAt |-> clock]

\* Attendance.findOne({ studentId, courseId, date: new Date(date) }): the first
\* document with that student, course and instant; None when there is none.
findAttendance(store, studentId, courseId, date) ==
  LET hits == {a \in LiveIds(store) : /\ store[a].studentId = studentId
                                      /\ store[a].courseId = courseId
                                      /\ store[a].date = date}
  IN IF hits = {} THEN None ELSE CHOOSE a \in hits : \A b \in hits : a <= b

\* the checks of POST /attendance that follow Course.findById
attendancePostChecks(who, studentId, courseId) ==
  LET course == findById(courses, courseId)
  IN IF ~authorizeRoles({"admin", "teacher"}, who) THEN 403
     ELSE IF course = None THEN 404
     ELSE IF who.role = "teacher" /\ notTeacherOf(course, who) THEN 403
     ELSE IF ~includes(courses[course].students, studentId) THEN 400
     ELSE 0

\* POST /attendance, handled without interleaving
AttendancePost(who, studentId, courseId, date, status) ==
  LET checks == attendancePostChecks(who, studentId, courseId)
      existingRecord == findAttendance(attendance, studentId, courseId, date)
      st == IF checks # 0 THEN checks
            ELSE IF existingRecord # None THEN 400
            ELSE 201
  IN [status     |-> st,
      attendance |-> IF st = 201
                       THEN Append(attendance,
                                   NewAttendance(studentId, courseId, date, status, who.id))
                       ELSE attendance]

\* GET /attendance ; studentId and courseId are the req.query filters
AttendanceList(who, studentId, courseId) ==
  LET status ==
        IF who.role = "teacher" /\ courseId # None /\ teacherDenied(courseId, who)
          THEN 403 ELSE 200
      qStudent == IF who.role = "student" THEN who.id ELSE studentId
      scoped   == who.role = "teacher" /\ courseId = None
      query == {a \in LiveIds(attendance) :
                  /\ qStudent # None => attendance[a].studentId = qStudent
                  /\ IF scoped THEN attendance[a].courseId \in coursesOfTeacher(who.id)
                     ELSE courseId # None => attendance[a].courseId = courseId}
  IN [status |-> status, res |-> IF status = 200 THEN query ELSE {}]

\* GET /attendance/:id ; studentId and courseId are populated
AttendanceGet(who, id) ==
  LET record == findById(attendance, id)
  IN [status |->
        IF record = None THEN 404
        ELSE IF who.role = "student"
          THEN IF populate(users, attendance[record].studentId) = None
                 THEN 500     \* attendance.studentId._id on null: TypeError
                 ELSE IF attendance[record].studentId # who.id THEN 403 ELSE 200
        ELSE IF who.role = "teacher"
                /\ teacherDenied(populate(courses, attendance[record].courseId), who)
          THEN 403
        ELSE 200]

\* the permission check shared by PUT and DELETE /attendance/:id
attendanceWriteStatus(who, id) ==
  LET record == findById(attendance, id)
  IN IF ~authorizeRoles({"admin", "teacher"}, who) THEN 403
     ELSE IF record = None THEN 404
     ELSE IF who.role = "teacher" /\ teacherDenied(attendance[record].courseId, who)
       THEN 403
     ELSE 200

\* PUT /attendance/:id
AttendancePut(who, id, status) ==
  LET st == attendanceWriteStatus(who, id)
  IN [status     |-> st,
      attendance |-> IF st = 200
                       THEN [attendance EXCEPT
                               ![id].status = IF Truthy(status) THEN status ELSE @,
                               ![id].recordedBy = who.id,
                               ![id].recordedAt = clock]
                       ELSE attendance]

\* DELETE /attendance/:id
AttendanceDelete(who, id) ==
  LET st == attendanceWriteStatus(who, id)
  IN [status     |-> st,
      attendance |-> IF st = 200 THEN Remove(attendance, id) ELSE attendance]

\* Attendance.findOneAndUpdate({ studentId, courseId, date }, { $set }, { upsert: true }):
\* one storage operation that overwrites the first matching document or inserts one.
upsertAttendance(store, studentId, courseId, date, status, recordedBy) ==
  LET hit == findAttendance(store, studentId, courseId, date)
  IN IF hit # None
       THEN [store EXCEPT ![hit].status = status, ![hit].recordedBy = recordedBy,
                          ![hit].recordedAt = clock]
       ELSE Append(store, NewAttendance(studentId, courseId, date, status, recordedBy))

\* the checks of POST /attendance/bulk before the loop
bulkChecks(who, courseId) ==
  LET course == findById(courses, courseId)
  IN IF ~authorizeRoles({"admin", "teacher"}, who) THEN 403
     ELSE IF courseId = None THEN 400
     ELSE IF course = None THEN 404
     ELSE IF who.role = "teacher" /\ notTeacherOf(course, who) THEN 403
     ELSE 200

\* bulkLoop with a loop that ends at the first tuple whose student is not enrolled
RECURSIVE bulkLoopEndsAtError(_, _, _, _, _, _, _)
bulkLoopEndsAtError(store, students, who, courseId, date, records, i) ==
  IF i > Len(records) THEN store
  ELSE IF ~includes(students, records[i].studentId) THEN store
  ELSE bulkLoopEndsAtError(upsertAttendance(store, records[i].studentId, courseId, date,
                                            records[i].status, who.id),
                           students, who, courseId, date, records, i + 1)

\* for (const record of records): the store after the tuples from position i on,
\* students being the students array of the course read before the loop
RECURSIVE bulkLoop(_, _, _, _, _, _, _)
bulkLoop(store, students, who, courseId, date, records, i) ==
  IF i > Len(records) THEN store
  ELSE bulkLoop(IF includes(students, records[i].studentId)
                  THEN upsertAttendance(store, records[i].studentId, courseId, date,
                                        records[i].status, who.id)
                  ELSE store,
                students, who, courseId, date, records, i + 1)

\* POST /attendance/bulk, handled without interleaving
AttendanceBulk(who, courseId, date, records) ==
  LET st == bulkChecks(who, courseId)
  IN [status     |-> st,
      attendance |-> IF st = 200
                       THEN bulkLoop(attendance, courses[courseId].students, who,
                                     courseId, date, records, 1)
                       ELSE attendance]

\* results.push(updatedAttendance): one entry for each tuple that reached the
\* upsert, in the order of the tuples; the entry is the document as the upsert
\* of that tuple returned it ({ new: true })
bulkResults(store, students, who, courseId, date, records) ==
  LET upserted == SelectSeq([i \in 1..Len(records) |-> i],
                            LAMBDA i : includes(students, records[i].studentId))
  IN [k \in 1..Len(upserted) |->
        LET i == upserted[k]
            after == bulkLoop(store, students, who, courseId, date, SubSeq(records, 1, i), 1)
        IN after[findAttendance(after, records[i].studentId, courseId, date)]]

\* errors.push({ studentId, message }): one entry for each tuple that was skipped
bulkErrors(students, records) ==
  LET skipped == SelectSeq(records, LAMBDA r : ~includes(students, r.studentId))
  IN [k \in 1..Len(skipped) |-> [studentId |-> skipped[k].studentId]]

\* the body of the response of POST /attendance/bulk after the loop
AttendanceBulkBody(who, courseId, date, records) ==
  LET st == bulkChecks(who, courseId)
  IN IF st # 200 THEN [status |-> st]
     ELSE [status  |-> 200,
           results |-> bulkResults(attendance, courses[courseId].students, who,
                                   courseId, date, records),
           errors  |-> bulkErrors(courses[courseId].students, records)]

\* ------------------------------------------------------------------ requests
\* The values a request can carry.  An _id may name a document that does not exist.
UserRefs       == 1..MaxUsers
CourseRefs     == 1..MaxCourses
AssignmentRefs == 1..MaxAssignments
GradeRefs      == 1..MaxGrades
AttendanceRefs == 1..MaxAttendance
InfractionRefs == 1..MaxInfractions
Opt(S)         == S \cup {None}
NameIn         == {NoField, "", "n2"}
Enrollable     == {4, 5}
RoleIn         == Roles \cup {NoField, ""}
EmailIn        == {None, 1, MaxUsers + 1}
StatusIn       == {"absent", "excused"}
ScoreIn        == Scores \cup {NoScore}
Tuples         == [studentId : Enrollable, status : StatusIn]
Bodies         == [firstName : NameIn, lastName : {NoField, "n2"}, email : EmailIn,
                   role : RoleIn]
RoleBodies     == {b \in Bodies : b.firstName = NoField /\ b.lastName = NoField /\ b.email = None}
ProfileBodies  == {b \in Bodies : b.role \in {NoField, ""} /\ b.lastName = NoField}
\* the resolution and resolved fields of a request body, each present or not
ResolutionIn == {"", " ", "r1"}
ResolutionBodies ==
  {<<>>} \cup [resolution : ResolutionIn] \cup [resolved : BOOLEAN]
         \cup [resolution : ResolutionIn, resolved : BOOLEAN]

RecordsIn      == UNION {[1..n -> Tuples] : n \in 0..MaxRecords}

\* ------------------------------------------------------------------ actions
\* One action per route: the handler's response operator applied to the store.
\* callers are the token payloads the requests are issued with.  A read leaves
\* every collection as it is.
DoUsersPost(callers) ==
  \E who \in callers, e \in EmailIn, r \in RoleIn :
    LET rsp == UsersPost(who, "n1", "n1", e, r)
    IN /\ Len(rsp.users) <= MaxUsers
       /\ users' = rsp.users
       /\ UNCHANGED <<courses, assignments, grades, attendance, infractions, tokens, procs, clock>>

DoUsersList(callers) ==
  \E who \in callers : UsersList(who).status \in {200, 403} /\ UNCHANGED vars

DoUsersGet(callers) ==
  \E who \in callers, id \in UserRefs :
    UsersGet(who, id).status \in {200, 403, 404} /\ UNCHANGED vars

DoUsersPut(callers, bodies) ==
  \E who \in callers, id \in UserRefs, b \in bodies :
    /\ users' = UsersPut(who, id, b.firstName, b.lastName, b.email, b.role).users
    /\ UNCHANGED <<courses, assignments, grades, attendance, infractions, tokens, procs, clock>>

DoUsersDelete(callers) ==
  \E who \in callers, id \in UserRefs :
    /\ users' = UsersDelete(who, id).users
    /\ UNCHANGED <<courses, assignments, grades, attendance, infractions, tokens, procs, clock>>

DoCoursesPost(callers) ==
  \E who \in callers, k \in Codes, t \in Opt(UserRefs) :
    LET rsp == CoursesPost(who, "n1", k, t)
    IN /\ Len(rsp.courses) <= MaxCourses
       /\ courses' = rsp.courses
       /\ UNCHANGED <<users, assignments, grades, attendance, infractions, tokens, procs, clock>>

DoCoursesList(callers) ==
  \E who \in callers, t \in Opt(UserRefs) :
    CoursesList(who, t).status = 200 /\ UNCHANGED vars

DoCoursesGet(callers) ==
  \E who \in callers, id \in CourseRefs :
    CoursesGet(who, id).status \in {200, 403, 404, 500} /\ UNCHANGED vars

DoCoursesPut(callers) ==
  \E who \in callers, id \in CourseRefs, n \in NameIn, t \in Opt(UserRefs) :
    /\ courses' = CoursesPut(who, id, n, t).courses
    /\ UNCHANGED <<users, assignments, grades, attendance, infractions, tokens, procs, clock>>

DoCoursesDelete(callers) ==
  \E who \in callers, id \in CourseRefs :
    /\ courses' = CoursesDelete(who, id).courses
    /\ UNCHANGED <<users, assignments, grades, attendance, infractions, tokens, procs, clock>>

DoCoursesEnroll(callers) ==
  \E who \in callers, id \in CourseRefs, s \in UserRefs :
    /\ courses' = CoursesEnroll(who, id, s).courses
    /\ UNCHANGED <<users, assignments, grades, attendance, infractions, tokens, procs, clock>>

DoCoursesUnenroll(callers) ==
  \E who \in callers, id \in CourseRefs, s \in UserRefs :
    /\ courses' = CoursesUnenroll(who, id, s).courses
    /\ UNCHANGED <<users, assignments, grades, attendance, infractions, tokens, procs, clock>>

DoAssignmentsPost(callers) ==
  \E who \in callers, c \in CourseRefs :
    LET rsp == AssignmentsPost(who, "n1", c)
    IN /\ Len(rsp.assignments) <= MaxAssignments
       /\ assignments' = rsp.assignments
       /\ UNCHANGED <<users, courses, grades, attendance, infractions, tokens, procs, clock>>

DoAssignmentsList(callers) ==
  \E who \in callers, c \in Opt(CourseRefs) :
    AssignmentsList(who, c).status \in {200, 403} /\ UNCHANGED vars

DoAssignmentsGet(callers) ==
  \E who \in callers, id \in AssignmentRefs :
    AssignmentsGet(who, id).status \in {200, 403, 404} /\ UNCHANGED vars

DoAssignmentsPut(callers) ==
  \E who \in callers, id \in AssignmentRefs, t \in NameIn :
    /\ assignments' = AssignmentsPut(who, id, t).assignments
    /\ UNCHANGED <<users, courses, grades, attendance, infractions, tokens, procs, clock>>

DoAssignmentsDelete(callers) ==
  \E who \in callers, id \in AssignmentRefs :
    /\ assignments' = AssignmentsDelete(who, id).assignments
    /\ UNCHANGED <<users, courses, grades, attendance, infractions, tokens, procs, clock>>

DoGradesPost(callers) ==
  \E who \in callers, s \in UserRefs, c \in CourseRefs, sc \in ScoreIn :
    LET rsp == GradesPost(who, s, c, sc)
    IN /\ Len(rsp.grades) <= MaxGrades
       /\ grades' = rsp.grades
       /\ UNCHANGED <<users, courses, assignments, attendance, infractions, tokens, procs, clock>>

DoGradesList(callers) ==
  \E who \in callers, s \in Opt(UserRefs), c \in Opt(CourseRefs) :
    GradesList(who, s, c).status \in {200, 403} /\ UNCHANGED vars

DoGradesGet(callers) ==
  \E who \in callers, id \in GradeRefs :
    GradesGet(who, id).status \in {200, 403, 404, 500} /\ UNCHANGED vars

DoGradesStats(callers) ==
  \E who \in callers, c \in CourseRefs :
    GradesStats(who, c).status \in {200, 403, 404} /\ UNCHANGED vars

DoGradesOfStudent(callers) ==
  \E who \in callers, s \in UserRefs :
    GradesOfStudent(who, s).status \in {200, 403} /\ UNCHANGED vars

DoGradesPut(callers) ==
  \E who \in callers, id \in GradeRefs, sc \in ScoreIn :
    /\ grades' = GradesPut(who, id, sc).grades
    /\ UNCHANGED <<users, courses, assignments, attendance, infractions, tokens, procs, clock>>

DoGradesDelete(callers) ==
  \E who \in callers, id \in GradeRefs :
    /\ grades' = GradesDelete(who, id).grades
    /\ UNCHANGED <<users, courses, assignments, attendance, infractions, tokens, procs, clock>>

DoInfractionsPost(callers) ==
  \E who \in callers, s \in UserRefs :
    LET rsp == InfractionsPost(who, s, "n1")
    IN /\ Len(rsp.infractions) <= MaxInfractions
       /\ infractions' = rsp.infractions
       /\ UNCHANGED <<users, courses, assignments, grades, attendance, tokens, procs, clock>>

DoInfractionsList(callers) ==
  \E who \in callers, s \in Opt(UserRefs) :
    InfractionsList(who, s).status = 200 /\ UNCHANGED vars

DoInfractionsGet(callers) ==
  \E who \in callers, id \in InfractionRefs :
    InfractionsGet(who, id).status \in {200, 403, 404, 500} /\ UNCHANGED vars

DoInfractionsPut(callers) ==
  \E who \in callers, id \in InfractionRefs, d \in NameIn :
    /\ infractions' = InfractionsPut(who, id, d).infractions
    /\ UNCHANGED <<users, courses, assignments, grades, attendance, tokens, procs, clock>>

DoInfractionsPostBody(callers) ==
  \E who \in callers, s \in UserRefs, b \in ResolutionBodies :
    LET rsp == InfractionsPostBody(who, s, "n1", b)
    IN /\ Len(rsp.infractions) <= MaxInfractions
       /\ infractions' = rsp.infractions
       /\ UNCHANGED <<users, courses, assignments, grades, attendance, tokens, procs, clock>>

DoInfractionsPutBody(callers) ==
  \E who \in callers, id \in InfractionRefs, d \in NameIn, b \in ResolutionBodies :
    /\ infractions' = InfractionsPutBody(who, id, d, b).infractions
    /\ UNCHANGED <<users, courses, assignments, grades, attendance, tokens, procs, clock>>

DoInfractionsDelete(callers) ==
  \E who \in callers, id \in InfractionRefs :
    /\ infractions' = InfractionsDelete(who, id).infractions
    /\ UNCHANGED <<users, courses, assignments, grades, attendance, tokens, procs, clock>>

DoAttendancePost(callers) ==
  \E who \in callers, s \in UserRefs, c \in CourseRefs, d \in Dates, st \in StatusIn :
    LET rsp == AttendancePost(who, s, c, d, st)
    IN /\ Len(rsp.attendance) <= MaxAttendance
       /\ attendance' = rsp.attendance
       /\ UNCHANGED <<users, courses, assignments, grades, infractions, tokens, procs, clock>>

DoAttendanceList(callers) ==
  \E who \in callers, s \in Opt(UserRefs), c \in Opt(CourseRefs) :
    AttendanceList(who, s, c).status \in {200, 403} /\ UNCHANGED vars

DoAttendanceGet(callers) ==
  \E who \in callers, id \in AttendanceRefs :
    AttendanceGet(who, id).status \in {200, 403, 404, 500} /\ UNCHANGED vars

DoAttendancePut(callers) ==
  \E who \in callers, id \in AttendanceRefs, st \in StatusIn :
    /\ attendance' = AttendancePut(who, id, st).attendance
    /\ UNCHANGED <<users, courses, assignments, grades, infractions, tokens, procs, clock>>

DoAttendanceDelete(callers) ==
  \E who \in callers, id \in AttendanceRefs :
    /\ attendance' = AttendanceDelete(who, id).attendance
    /\ UNCHANGED <<users, courses, assignments, grades, infractions, tokens, procs, clock>>

\* POST /attendance/bulk with a date and tuples of the given sets
DoAttendanceBulkOf(callers, dates, recordsIn) ==
  \E who \in callers, c \in Opt(CourseRefs), d \in dates, rs \in recordsIn :
    LET rsp == AttendanceBulk(who, c, d, rs)
    IN /\ Len(rsp.attendance) <= MaxAttendance
       /\ attendance' = rsp.attendance
       /\ UNCHANGED <<users, courses, assignments, grades, infractions, tokens, procs, clock>>

DoAttendanceBulk(callers) == DoAttendanceBulkOf(callers, Dates, RecordsIn)

\* ------------------------------------------------------------------ initial states
User(role, n) ==
  [live |-> TRUE, role |-> role, firstName |-> "n1", lastName |-> "n1", email |-> n]

Idle == [pc |-> "idle"]

\* The accounts of a deployment: the seeded admin (server.js, newUser), two
\* teachers and two students, each holding a token.
Accounts ==
  /\ users = <<User("admin", 1), User("teacher", 2), User("teacher", 3),
               User("student", 4), User("student", 5)>>
  /\ tokens = {[id |-> 1, role |-> "admin"], [id |-> 2, role |-> "teacher"],
               [id |-> 3, role |-> "teacher"], [id |-> 4, role |-> "student"],
               [id |-> 5, role |-> "student"]}
  /\ procs = [p \in 1..NProcs |-> Idle]
  /\ clock = 0

\* The store after deployment: accounts, and every other collection empty.
Init ==
  /\ Accounts
  /\ courses = <<>>
  /\ assignments = <<>>
  /\ grades = <<>>
  /\ attendance = <<>>
  /\ infractions = <<>>

\* ------------------------------------------------------------------ specifications
\* Courses and enrolment.
Next ==
  \/ DoCoursesPost(tokens)
  \/ DoCoursesList(tokens)
  \/ DoCoursesGet(tokens)
  \/ DoCoursesPut(tokens)
  \/ DoCoursesDelete(tokens)
  \/ DoCoursesEnroll(tokens)
  \/ DoCoursesUnenroll(tokens)

Spec == Init /\ [][Next]_vars

\* Two courses, one for each teacher, each with one of the students enrolled:
\* the store after POST /courses by teachers 2 and 3 and one enrolment each.
TwoCourses ==
  <<[NewCourse("n1", "k1", 2) EXCEPT !.students = <<4>>],
    [NewCourse("n1", "k2", 3) EXCEPT !.students = <<5>>]>>

InitEnrolled ==
  /\ Accounts
  /\ courses = TwoCourses
  /\ assignments = <<>>
  /\ grades = <<>>
  /\ attendance = <<>>
  /\ infractions = <<>>

\* Grades of the two courses.
NextGrades ==
  \/ DoGradesPost(tokens)
  \/ DoGradesList(tokens)
  \/ DoGradesGet(tokens)
  \/ DoGradesPut(tokens)
  \/ DoGradesDelete(tokens)
  \/ DoCoursesDelete(tokens)
  \/ DoUsersDelete(tokens)

SpecGrades == InitEnrolled /\ [][NextGrades]_vars

\* Assignments of the two courses.
NextAssignments ==
  \/ DoAssignmentsPost(tokens)
  \/ DoAssignmentsList(tokens)
  \/ DoAssignmentsGet(tokens)
  \/ DoAssignmentsPut(tokens)
  \/ DoAssignmentsDelete(tokens)
  \/ DoCoursesDelete(tokens)
  \/ DoUsersDelete(tokens)

SpecAssignments == InitEnrolled /\ [][NextAssignments]_vars

\* Attendance of the two courses, every request handled before the next starts.
NextAttendance ==
  \/ DoAttendancePost(tokens)
  \/ DoAttendanceList(tokens)
  \/ DoAttendanceGet(tokens)
  \/ DoAttendancePut(tokens)
  \/ DoAttendanceDelete(tokens)
  \/ DoAttendanceBulk(tokens)
  \/ DoCoursesDelete(tokens)

SpecAttendance == InitEnrolled /\ [][NextAttendance]_vars

\* Infractions.
NextInfractions ==
  \/ DoInfractionsPost(tokens)
  \/ DoInfractionsList(tokens)
  \/ DoInfractionsGet(tokens)
  \/ DoInfractionsPut(tokens)
  \/ DoInfractionsPostBody(tokens)
  \/ DoInfractionsPutBody(tokens)
  \/ DoInfractionsDelete(tokens)
  \/ DoUsersDelete(tokens)

SpecInfractions == Init /\ [][NextInfractions]_vars

\* User accounts and role changes.  A token keeps the role it was issued with
\* when the role of its user is changed, and stays valid when the user is deleted.
NextUsers ==
  \/ DoUsersPost(tokens)
  \/ DoUsersList(tokens)
  \/ DoUsersGet(tokens)
  \/ DoUsersPut(tokens, RoleBodies)
  \/ DoUsersDelete(tokens)

SpecUsers == Init /\ [][NextUsers]_vars

\* ------------------------------------------------------------------ requests in flight
\* A handler runs up to its next await, and other requests are served in between.
\* procs[p] is a request in flight: the await it stands at and the locals it holds.
Done(op, key, status) == [pc |-> "done", op |-> op, key |-> key, status |-> status]

\* The requests in flight contend for one date, and their bulk tuples carry one status.
RaceDates   == {<<1, 0>>}
RaceTuples  == [studentId : Enrollable, status : {"excused"}]
RaceRecords == UNION {[1..n -> RaceTuples] : n \in 0..MaxRecords}

\* A save that changes the students array increments the version (__v) of the
\* Course: the documents that the other requests read before are of an earlier
\* version.  Request p is answered with done.
afterWrite(p, id, done) ==
  [q \in 1..NProcs |->
     IF q = p THEN done
     ELSE IF procs[q].pc = "unenroll.save" /\ procs[q].id = id
       THEN [procs[q] EXCEPT !.stale = TRUE]
     ELSE procs[q]]

\* POST /courses/:id/enroll up to the result of await Course.findById
EnrollFindCourse(p) ==
  \E who \in tokens, id \in CourseRefs, studentId \in Enrollable :
    LET c1 == enrollCourseChecks(who, id)
    IN /\ procs[p].pc = "idle"
       /\ procs' = [procs EXCEPT ![p] =
                      IF c1 # 0 THEN Done("enroll", <<id, studentId>>, c1)
                      ELSE [pc |-> "enroll.findStudent", id |-> id, studentId |-> studentId,
                            students |-> courses[id].students]]
       /\ UNCHANGED <<db, tokens, clock>>

\* ... from there to the result of await User.findOne and the includes check,
\* made on the course document read before
EnrollFindStudent(p) ==
  /\ procs[p].pc = "enroll.findStudent"
  /\ LET c2 == enrollStudentChecks(procs[p].students, procs[p].studentId)
     IN procs' = [procs EXCEPT ![p] =
                    IF c2 # 0 THEN Done("enroll", <<procs[p].id, procs[p].studentId>>, c2)
                    ELSE [procs[p] EXCEPT !.pc = "enroll.save"]]
  /\ UNCHANGED <<db, tokens, clock>>

\* ... course.students.push(studentId); await course.save()
EnrollSave(p) ==
  /\ procs[p].pc = "enroll.save"
  /\ IF Live(courses, procs[p].id)
       THEN /\ courses' = pushStudent(courses, procs[p].id, procs[p].studentId)
            /\ procs' = afterWrite(p, procs[p].id,
                                   Done("enroll", <<procs[p].id, procs[p].studentId>>, 200))
       ELSE /\ courses' = courses      \* DocumentNotFoundError
            /\ procs' = [procs EXCEPT ![p] = Done("enroll", <<procs[p].id, procs[p].studentId>>, 500)]
  /\ UNCHANGED <<users, assignments, grades, attendance, infractions, tokens, clock>>

\* DELETE /courses/:id/students/:studentId up to the result of await Course.findById
UnenrollFindCourse(p) ==
  \E who \in tokens, id \in CourseRefs, studentId \in Enrollable :
    LET c1 == enrollCourseChecks(who, id)
    IN /\ procs[p].pc = "idle"
       /\ procs' = [procs EXCEPT ![p] =
                      IF c1 # 0 THEN Done("unenroll", <<id, studentId, <<>>, FALSE>>, c1)
                      ELSE [pc |-> "unenroll.save", id |-> id, studentId |-> studentId,
                            students |-> courses[id].students, stale |-> FALSE]]
       /\ UNCHANGED <<db, tokens, clock>>

\* UnenrollSave that writes the filtered array whatever the stored version is
UnenrollSaveAnyVersion(p) ==
  /\ procs[p].pc = "unenroll.save"
  /\ LET r == procs[p]
         filtered == withoutStudent(r.students, r.studentId)
     IN /\ courses' = [courses EXCEPT ![r.id].students = filtered]
        /\ procs' = afterWrite(p, r.id,
                               Done("unenroll", <<r.id, r.studentId, r.students, r.stale>>, 200))
  /\ UNCHANGED <<users, assignments, grades, attendance, infractions, tokens, clock>>

\* ... course.students = course.students.filter(...); await course.save().
\* An array equal to the one read is no modification, and save() writes nothing.
\* A new array is written with $set under the version the document was read at:
\* when the stored version is a later one, save() throws VersionError (500).
UnenrollSave(p) ==
  /\ procs[p].pc = "unenroll.save"
  /\ LET r == procs[p]
         filtered == withoutStudent(r.students, r.studentId)
         key == <<r.id, r.studentId, r.students, r.stale>>
     IN IF ~Live(courses, r.id) \/ (filtered # r.students /\ r.stale)
          THEN /\ courses' = courses
               /\ procs' = [procs EXCEPT ![p] = Done("unenroll", key, 500)]
          ELSE IF filtered = r.students
            THEN /\ courses' = courses
                 /\ procs' = [procs EXCEPT ![p] = Done("unenroll", key, 200)]
          ELSE /\ courses' = [courses EXCEPT ![r.id].students = filtered]
               /\ procs' = afterWrite(p, r.id, Done("unenroll", key, 200))
  /\ UNCHANGED <<users, assignments, grades, attendance, infractions, tokens, clock>>

NextEnrollRace ==
  \E p \in 1..NProcs :
    \/ EnrollFindCourse(p)
    \/ EnrollFindStudent(p)
    \/ EnrollSave(p)

\* NProcs enroll requests, interleaved at their awaits.
SpecEnrollRace == InitEnrolled /\ [][NextEnrollRace]_vars

\* NProcs enrollment changes of either kind, interleaved at their awaits.
NextEnrollmentChanges ==
  \E p \in 1..NProcs :
    \/ EnrollFindCourse(p)
    \/ EnrollFindStudent(p)
    \/ EnrollSave(p)
    \/ UnenrollFindCourse(p)
    \/ UnenrollSave(p)

SpecEnrollmentChanges == InitEnrolled /\ [][NextEnrollmentChanges]_vars

\* POST /attendance up to the result of await Course.findById and its checks
AttendanceFindCourse(p) ==
  \E who \in tokens, studentId \in Enrollable, courseId \in CourseRefs, date \in RaceDates :
    LET checks == attendancePostChecks(who, studentId, courseId)
    IN /\ procs[p].pc = "idle"
       /\ procs' = [procs EXCEPT ![p] =
                      IF checks # 0 THEN Done("create", <<studentId, courseId, date>>, checks)
                      ELSE [pc |-> "create.findOne", who |-> who, studentId |-> studentId,
                            courseId |-> courseId, date |-> date]]
       /\ UNCHANGED <<db, tokens, clock>>

\* ... the result of await Attendance.findOne
AttendanceFindOne(p) ==
  /\ procs[p].pc = "create.findOne"
  /\ LET existingRecord == findAttendance(attendance, procs[p].studentId,
                                          procs[p].courseId, procs[p].date)
     IN procs' = [procs EXCEPT ![p] =
                    IF existingRecord # None
                      THEN Done("create", <<procs[p].studentId, procs[p].courseId,
                                            procs[p].date>>, 400)
                    ELSE [procs[p] EXCEPT !.pc = "create.save"]]
  /\ UNCHANGED <<db, tokens, clock>>

\* ... await attendance.save(): an insert
AttendanceSave(p) ==
  /\ procs[p].pc = "create.save"
  /\ attendance' = Append(attendance,
                          NewAttendance(procs[p].studentId, procs[p].courseId,
                                        procs[p].date, "absent", procs[p].who.id))
  /\ procs' = [procs EXCEPT ![p] = Done("create", <<procs[p].studentId, procs[p].courseId,
                                                  procs[p].date>>, 201)]
  /\ UNCHANGED <<users, courses, assignments, grades, infractions, tokens, clock>>

\* POST /attendance/bulk up to the result of await Course.findById and its checks
BulkFindCourse(p) ==
  \E who \in tokens, courseId \in CourseRefs, date \in RaceDates, records \in RaceRecords :
    LET st == bulkChecks(who, courseId)
    IN /\ procs[p].pc = "idle"
       /\ procs' = [procs EXCEPT ![p] =
                      IF st # 200 THEN Done("bulk", <<courseId, date>>, st)
                      ELSE [pc |-> "bulk.loop", who |-> who, courseId |-> courseId,
                            date |-> date, records |-> records, i |-> 1,
                            students |-> courses[courseId].students]]
       /\ UNCHANGED <<db, tokens, clock>>

\* ... one turn of the loop: await Attendance.findOneAndUpdate for tuple i, or
\* the response once the tuples are used up
BulkUpsert(p) ==
  /\ procs[p].pc = "bulk.loop"
  /\ LET r == procs[p]
     IN IF r.i > Len(r.records)
          THEN /\ attendance' = attendance
               /\ procs' = [procs EXCEPT ![p] = Done("bulk", <<r.courseId, r.date>>, 200)]
          ELSE /\ attendance' = bulkLoop(attendance, r.students, r.who, r.courseId, r.date,
                                         SubSeq(r.records, r.i, r.i), 1)
               /\ procs' = [procs EXCEPT ![p].i = r.i + 1]
  /\ UNCHANGED <<users, courses, assignments, grades, infractions, tokens, clock>>

NextAttendanceRace ==
  \E p \in 1..NProcs :
    \/ AttendanceFindCourse(p)
    \/ AttendanceFindOne(p)
    \/ AttendanceSave(p)
    \/ BulkFindCourse(p)
    \/ BulkUpsert(p)

\* NProcs attendance writes, interleaved at their awaits.
SpecAttendanceRace == InitEnrolled /\ [][NextAttendanceRace]_vars

\* ------------------------------------------------------------------ student requests
\* The token payloads that carry the student role.
Students == {t \in tokens : t.role = "student"}

\* The two courses with records of every kind: the store after the teachers
\* created assignments, grades, attendance and an infraction for their students.
InitPopulated ==
  /\ Accounts
  /\ courses = TwoCourses
  /\ assignments = <<NewAssignment("n1", 1, 2), NewAssignment("n1", 2, 3)>>
  /\ grades = <<NewGrade(4, 1, 85, 2), NewGrade(5, 2, 85, 3)>>
  /\ attendance = <<NewAttendance(4, 1, <<1, 0>>, "absent", 2),
                    NewAttendance(5, 2, <<1, 0>>, "absent", 3)>>
  /\ infractions = <<NewInfraction(4, "n1", 2)>>

\* Every route, requested with a student's token; an admin deletes users and courses.
NextStudent ==
  \/ DoUsersPost(Students)
  \/ DoUsersList(Students)
  \/ DoUsersGet(Students)
  \/ DoUsersPut(Students, ProfileBodies)
  \/ DoUsersDelete(tokens)
  \/ DoCoursesPost(Students)
  \/ DoCoursesList(Students)
  \/ DoCoursesGet(Students)
  \/ DoCoursesPut(Students)
  \/ DoCoursesDelete(tokens)
  \/ DoCoursesEnroll(Students)
  \/ DoCoursesUnenroll(Students)
  \/ DoAssignmentsPost(Students)
  \/ DoAssignmentsList(Students)
  \/ DoAssignmentsGet(Students)
  \/ DoAssignmentsPut(Students)
  \/ DoAssignmentsDelete(Students)
  \/ DoGradesPost(Students)
  \/ DoGradesList(Students)
  \/ DoGradesGet(Students)
  \/ DoGradesPut(Students)
  \/ DoGradesDelete(Students)
  \/ DoInfractionsPost(Students)
  \/ DoInfractionsList(Students)
  \/ DoInfractionsGet(Students)
  \/ DoInfractionsPut(Students)
  \/ DoInfractionsDelete(Students)
  \/ DoAttendancePost(Students)
  \/ DoAttendanceList(Students)
  \/ DoAttendanceGet(Students)
  \/ DoAttendancePut(Students)
  \/ DoAttendanceDelete(Students)
  \/ DoAttendanceBulk(Students)

SpecStudent == InitPopulated /\ [][NextStudent]_vars

\* ------------------------------------------------------------------ middleware
\* router.METHOD(path, authenticateToken[, authorizeRoles(roles)], handler): the
\* functions of a route run in the order of their declaration, each one either
\* answering the request or calling next().
Restricted(name, roles) ==
  [name |-> name, chain |-> <<"authenticateToken", "authorizeRoles", "handler">>,
   roles |-> roles]
Open(name) ==
  [name |-> name, chain |-> <<"authenticateToken", "handler">>, roles |-> Roles]

Routes ==
  { Restricted("users.post", {"admin"}), Open("users.list"), Open("users.get"),
    Open("users.put"), Restricted("users.delete", {"admin"}),
    Restricted("courses.post", {"admin", "teacher"}), Open("courses.list"),
    Open("courses.get"), Restricted("courses.put", {"admin", "teacher"}),
    Restricted("courses.delete", {"admin"}),
    Restricted("courses.enroll", {"admin", "teacher"}),
    Restricted("courses.unenroll", {"admin", "teacher"}),
    Restricted("assignments.post", {"admin", "teacher"}), Open("assignments.list"),
    Open("assignments.get"), Restricted("assignments.put", {"admin", "teacher"}),
    Restricted("assignments.delete", {"admin", "teacher"}),
    Restricted("grades.post", {"admin", "teacher"}), Open("grades.list"),
    Open("grades.student"), Open("grades.course"), Open("grades.get"),
    Restricted("grades.put", {"admin", "teacher"}),
    Restricted("grades.delete", {"admin", "teacher"}), Open("grades.stats"),
    Restricted("infractions.post", {"admin", "teacher"}), Open("infractions.list"),
    Open("infractions.get"), Restricted("infractions.put", {"admin", "teacher"}),
    Restricted("infractions.delete", {"admin"}),
    Restricted("attendance.post", {"admin", "teacher"}), Open("attendance.list"),
    Open("attendance.get"), Restricted("attendance.put", {"admin", "teacher"}),
    Restricted("attendance.delete", {"admin", "teacher"}),
    Restricted("attendance.bulk", {"admin", "teacher"}) }

\* The Authorization header of a request: absent, a token that jwt.verify
\* refuses, or a token that verifies to its payload.
NoUser    == [id |-> None, role |-> NoField]
NoToken   == [token |-> FALSE, verified |-> FALSE, payload |-> NoUser]
BadToken  == [token |-> TRUE, verified |-> FALSE, payload |-> NoUser]
Bearer(t) == [token |-> TRUE, verified |-> TRUE, payload |-> t]
\* the requests of the pipeline carry no token, a bad one, or the token of the
\* admin, of teacher 2 or of student 4
PipelineCallers == {1, 2, 4}
Headers   == {NoToken, BadToken} \cup {Bearer(t) : t \in {u \in tokens : u.id \in PipelineCallers}}

\* The _id a request of the pipeline names: document 1 of each collection or
\* document 4, which only the users collection holds.  A create names what makes
\* its handler refuse (an email or courseCode in use, a Course that does not
\* exist, a User who is no student), DELETE /users names student 4, and of the
\* updates only PUT /courses carries a field.
PipelineIds(name) ==
  CASE name \in {"users.post", "infractions.post", "courses.delete"} -> {1}
    [] name \in {"users.delete", "assignments.post", "grades.post", "attendance.post",
                 "attendance.bulk"} -> {4}
    [] name \in {"users.list", "courses.post", "courses.list", "assignments.list",
                 "grades.list", "infractions.list", "attendance.list"} -> {None}
    [] OTHER -> {1, 4}

\* the collections as one record, under the names the responses use
Store ==
  [users |-> users, courses |-> courses, assignments |-> assignments,
   grades |-> grades, attendance |-> attendance, infractions |-> infractions]

\* the handler of the route applied to the request of the pipeline: its status
\* and the collections after it
serve(name, who, id) ==
  (CASE name = "users.post"   -> UsersPost(who, "n1", "n1", id, "student")
     [] name = "users.list"   -> UsersList(who)
     [] name = "users.get"    -> UsersGet(who, id)
     [] name = "users.put"    -> UsersPut(who, id, NoField, NoField, None, NoField)
     [] name = "users.delete" -> UsersDelete(who, id)
     [] name = "courses.post"     -> CoursesPost(who, "n1", "k2", None)
     [] name = "courses.list"     -> CoursesList(who, None)
     [] name = "courses.get"      -> CoursesGet(who, id)
     [] name = "courses.put"      -> CoursesPut(who, id, "n2", None)
     [] name = "courses.delete"   -> CoursesDelete(who, id)
     [] name = "courses.enroll"   -> CoursesEnroll(who, id, 4)
     [] name = "courses.unenroll" -> CoursesUnenroll(who, id, 4)
     [] name = "assignments.post"   -> AssignmentsPost(who, "n1", id)
     [] name = "assignments.list"   -> AssignmentsList(who, None)
     [] name = "assignments.get"    -> AssignmentsGet(who, id)
     [] name = "assignments.put"    -> AssignmentsPut(who, id, NoField)
     [] name = "assignments.delete" -> AssignmentsDelete(who, id)
     [] name = "grades.post"    -> GradesPost(who, 4, id, 85)
     [] name = "grades.list"    -> GradesList(who, None, None)
     [] name = "grades.student" -> [status |-> GradesOfStudentStatus(who, id)]
     [] name = "grades.course"  -> [status |-> GradesOfCourseStatus(who, id)]
     [] name = "grades.get"     -> GradesGet(who, id)
     [] name = "grades.put"     -> GradesPut(who, id, NoScore)
     [] name = "grades.delete"  -> GradesDelete(who, id)
     [] name = "grades.stats"   -> [status |-> GradesStatsStatus(who, id)]
     [] name = "infractions.post"   -> InfractionsPost(who, id, "n1")
     [] name = "infractions.list"   -> InfractionsList(who, None)
     [] name = "infractions.get"    -> InfractionsGet(who, id)
     [] name = "infractions.put"    -> InfractionsPut(who, id, NoField)
     [] name = "infractions.delete" -> InfractionsDelete(who, id)
     [] name = "attendance.post"   -> AttendancePost(who, 4, id, <<1, 0>>, "absent")
     [] name = "attendance.list"   -> AttendanceList(who, None, None)
     [] name = "attendance.get"    -> AttendanceGet(who, id)
     [] name = "attendance.put"    -> AttendancePut(who, id, NoField)
     [] name = "attendance.delete" -> AttendanceDelete(who, id)
     [] name = "attendance.bulk"   -> AttendanceBulk(who, id, <<1, 0>>, <<>>))
  @@ Store

\* the handlers that answer from req.user and req.params alone, before their
\* first storage call
answersBeforeStorage(name, who, id) ==
  CASE name = "users.list" -> who.role # "admin" /\ who.role # "teacher"
    [] name \in {"users.get", "users.put"} -> who.role # "admin" /\ who.id # id
    [] name = "grades.student" -> who.role = "student" /\ who.id # id
    [] OTHER -> FALSE

\* a request that was answered: by names the function of the chain that sent the
\* response, storage the storage calls the request made
Answered(req, by, status, storage) ==
  [pc |-> "done", route |-> req.route, header |-> req.header, id |-> req.id,
   by |-> by, status |-> status, storage |-> storage]

\* the request moves to the function at position k of its chain
Forward(req, k, user) ==
  [pc |-> req.route.chain[k], route |-> req.route, header |-> req.header,
   id |-> req.id, at |-> k, user |-> user]

\* A request arrives; the server takes it up when no other request is in flight.
Receive(p) ==
  /\ \A q \in 1..NProcs : procs[q].pc = "idle"
  /\ \E route \in Routes, header \in Headers :
       \E id \in PipelineIds(route.name) :
         procs' = [procs EXCEPT ![p] =
                     Forward([route |-> route, header |-> header, id |-> id], 1, NoUser)]
  /\ UNCHANGED <<db, tokens, clock>>

\* authenticateToken
AuthenticateToken(p) ==
  LET req == procs[p]
  IN /\ req.pc = "authenticateToken"
     /\ procs' = [procs EXCEPT ![p] =
                    IF ~req.header.token
                      THEN Answered(req, "authenticateToken", 401, 0)
                    ELSE IF ~req.header.verified
                      THEN Answered(req, "authenticateToken", 403, 0)
                    ELSE Forward(req, req.at + 1, req.header.payload)]
     /\ UNCHANGED <<db, tokens, clock>>

\* authorizeRoles(roles) that calls next() whatever req.user is
AuthorizeRolesPassesAll(p) ==
  LET req == procs[p]
  IN /\ req.pc = "authorizeRoles"
     /\ procs' = [procs EXCEPT ![p] = Forward(req, req.at + 1, req.user)]
     /\ UNCHANGED <<db, tokens, clock>>

\* authorizeRoles(roles)
AuthorizeRoles(p) ==
  LET req == procs[p]
  IN /\ req.pc = "authorizeRoles"
     /\ procs' = [procs EXCEPT ![p] =
                    IF req.user = NoUser
                      THEN Answered(req, "authorizeRoles", 401, 0)
                    ELSE IF ~authorizeRoles(req.route.roles, req.user)
                      THEN Answered(req, "authorizeRoles", 403, 0)
                    ELSE Forward(req, req.at + 1, req.user)]
     /\ UNCHANGED <<db, tokens, clock>>

\* The handler up to its first storage call.
HandlerEntry(p) ==
  LET req == procs[p]
  IN /\ req.pc = "handler"
     /\ procs' = [procs EXCEPT ![p] =
                    IF answersBeforeStorage(req.route.name, req.user, req.id)
                      THEN Answered(req, "handler",
                                    serve(req.route.name, req.user, req.id).status, 0)
                      ELSE [req EXCEPT !.pc = "storage"]]
     /\ UNCHANGED <<db, tokens, clock>>

\* The handler from its first storage call to its response.
HandlerStorage(p) ==
  LET req == procs[p]
      rsp == serve(req.route.name, req.user, req.id)
  IN /\ req.pc = "storage"
     /\ users' = rsp.users
     /\ courses' = rsp.courses
     /\ assignments' = rsp.assignments
     /\ grades' = rsp.grades
     /\ attendance' = rsp.attendance
     /\ infractions' = rsp.infractions
     /\ procs' = [procs EXCEPT ![p] = Answered(req, "handler", rsp.status, 1)]
     /\ UNCHANGED <<tokens, clock>>

\* The response is sent and the request is over.
Respond(p) ==
  /\ procs[p].pc = "done"
  /\ procs' = [procs EXCEPT ![p] = Idle]
  /\ UNCHANGED <<db, tokens, clock>>

NextPipeline ==
  \E p \in 1..NProcs :
    \/ Receive(p)
    \/ AuthenticateToken(p)
    \/ AuthorizeRoles(p)
    \/ HandlerEntry(p)
    \/ HandlerStorage(p)
    \/ Respond(p)

\* One request at a time through the middleware chain of its route, on the
\* populated store.
SpecPipeline == InitPopulated /\ [][NextPipeline]_vars

\* ------------------------------------------------------------------ claims
Teachers == {t \in tokens : t.role = "teacher"}

\* the live courses whose teacherId is not the identity who
CoursesNotOwnedBy(who) == {c \in LiveIds(courses) : courses[c].teacherId # who.id}

\* the live students: the studentId values of a well-formed request
LiveStudents == {u \in LiveIds(users) : users[u].role = "student"}

\* C1: a write by a teacher T on a course that exists and has another teacherId,
\* or on an Assignment, Grade or Attendance record of such a course, is denied as
\* forbidden (403) and changes no stored record.  The requests are well formed:
\* the student is a live student and the score is a positive number.
C1_TeacherWritesNeedOwnership ==
  \A who \in Teachers : \A c \in CoursesNotOwnedBy(who) :
    /\ \A n \in NameIn, t \in Opt(UserRefs) :
         CoursesPut(who, c, n, t) = [status |-> 403, courses |-> courses]
    /\ \A s \in UserRefs :
         /\ CoursesEnroll(who, c, s) = [status |-> 403, courses |-> courses]
         /\ CoursesUnenroll(who, c, s) = [status |-> 403, courses |-> courses]
    /\ AssignmentsPost(who, "n1", c) = [status |-> 403, assignments |-> assignments]
    /\ \A a \in LiveIds(assignments) :
         assignments[a].courseId = c =>
           /\ \A n \in NameIn :
                AssignmentsPut(who, a, n) = [status |-> 403, assignments |-> assignments]
           /\ AssignmentsDelete(who, a) = [status |-> 403, assignments |-> assignments]
    /\ \A s \in LiveStudents :
         GradesPost(who, s, c, 85) = [status |-> 403, grades |-> grades]
    /\ \A g \in LiveIds(grades) :
         grades[g].courseId = c =>
           /\ \A sc \in ScoreIn : GradesPut(who, g, sc) = [status |-> 403, grades |-> grades]
           /\ GradesDelete(who, g) = [status |-> 403, grades |-> grades]
    /\ \A s \in LiveStudents, d \in Dates, st \in StatusIn :
         AttendancePost(who, s, c, d, st) = [status |-> 403, attendance |-> attendance]
    /\ \A d \in Dates, rs \in RecordsIn :
         AttendanceBulk(who, c, d, rs) = [status |-> 403, attendance |-> attendance]
    /\ \A a \in LiveIds(attendance) :
         attendance[a].courseId = c =>
           /\ \A st \in StatusIn :
                AttendancePut(who, a, st) = [status |-> 403, attendance |-> attendance]
           /\ AttendanceDelete(who, a) = [status |-> 403, attendance |-> attendance]

\* C2: whatever filters a teacher T supplies (none, studentId, courseId, both), a
\* successful list-grades response holds only grades of courses with teacherId = T.
C2_TeacherGradeListScoped ==
  \A who \in Teachers, s \in Opt(UserRefs), c \in Opt(CourseRefs) :
    LET rsp == GradesList(who, s, c)
    IN rsp.status = 200 =>
         \A g \in rsp.res : grades[g].courseId \in coursesOfTeacher(who.id)

\* C3: a teacher who lists Assignments, Grades or Attendance with the courseId of
\* an existing course the teacher does not own gets forbidden (403), not a list.
C3_ForeignCourseFilterForbidden ==
  \A who \in Teachers : \A c \in CoursesNotOwnedBy(who) :
    /\ AssignmentsList(who, c).status = 403
    /\ \A s \in Opt(UserRefs) : GradesList(who, s, c).status = 403
    /\ \A s \in Opt(UserRefs) : AttendanceList(who, s, c).status = 403

\* C4: for a student S the list responses hold only S's own Grade, Attendance and
\* Infraction records, the courses S is enrolled in and their assignments, under
\* every filter; a get-by-id by S of another student's Grade, Attendance or
\* Infraction, or of a Course or Assignment of a course S is not enrolled in, is
\* forbidden (403).
C4_StudentScoped ==
  \A who \in Students :
    /\ \A s \in Opt(UserRefs), c \in Opt(CourseRefs) :
         /\ \A g \in GradesList(who, s, c).res : grades[g].studentId = who.id
         /\ \A a \in AttendanceList(who, s, c).res : attendance[a].studentId = who.id
    /\ \A s \in Opt(UserRefs) :
         \A i \in InfractionsList(who, s).res : infractions[i].studentId = who.id
    /\ \A t \in Opt(UserRefs) :
         \A c \in CoursesList(who, t).res : includes(courses[c].students, who.id)
    /\ \A c \in Opt(CourseRefs) :
         \A a \in AssignmentsList(who, c).res :
           assignments[a].courseId \in coursesOfStudent(who.id)
    /\ \A g \in LiveIds(grades) :
         grades[g].studentId # who.id => GradesGet(who, g).status = 403
    /\ \A a \in LiveIds(attendance) :
         attendance[a].studentId # who.id => AttendanceGet(who, a).status = 403
    /\ \A i \in LiveIds(infractions) :
         infractions[i].studentId # who.id => InfractionsGet(who, i).status = 403
    /\ \A c \in LiveIds(courses) :
         ~includes(courses[c].students, who.id) => CoursesGet(who, c).status = 403
    /\ \A a \in LiveIds(assignments) :
         assignments[a].courseId \notin coursesOfStudent(who.id)
           => AssignmentsGet(who, a).status = 403

\* new differs from old at most in the firstName, lastName and email of user self
OnlyOwnProfile(old, new, self) ==
  /\ Len(new) = Len(old)
  /\ \A u \in Ids(old) :
       \/ new[u] = old[u]
       \/ /\ u = self
          /\ old[u].live
          /\ new[u].live
          /\ new[u].role = old[u].role

\* C5: a request made with a student identity leaves every Course, Assignment,
\* Grade, Attendance and Infraction record as it is, and every User record too
\* except the firstName, lastName and email of the student's own record; a
\* student's create, delete, enroll and unenroll requests are denied (403).
C5_StudentRequestsChangeNothing ==
  \A who \in Students :
    /\ \A b \in Bodies :
         /\ UsersPost(who, b.firstName, b.lastName, b.email, b.role)
              = [status |-> 403, users |-> users]
         /\ \A id \in UserRefs :
              OnlyOwnProfile(users,
                             UsersPut(who, id, b.firstName, b.lastName, b.email, b.role).users,
                             who.id)
    /\ \A id \in UserRefs : UsersDelete(who, id) = [status |-> 403, users |-> users]
    /\ \A n \in NameIn, k \in Codes, t \in Opt(UserRefs) :
         CoursesPost(who, n, k, t) = [status |-> 403, courses |-> courses]
    /\ \A c \in CourseRefs :
         /\ \A n \in NameIn, t \in Opt(UserRefs) : CoursesPut(who, c, n, t).courses = courses
         /\ CoursesDelete(who, c) = [status |-> 403, courses |-> courses]
         /\ \A s \in UserRefs :
              /\ CoursesEnroll(who, c, s) = [status |-> 403, courses |-> courses]
              /\ CoursesUnenroll(who, c, s) = [status |-> 403, courses |-> courses]
         /\ \A n \in NameIn :
              AssignmentsPost(who, n, c) = [status |-> 403, assignments |-> assignments]
         /\ \A s \in UserRefs, sc \in ScoreIn :
              GradesPost(who, s, c, sc) = [status |-> 403, grades |-> grades]
         /\ \A s \in UserRefs, d \in Dates, st \in StatusIn :
              AttendancePost(who, s, c, d, st) = [status |-> 403, attendance |-> attendance]
    /\ \A c \in Opt(CourseRefs), d \in Dates, rs \in RecordsIn :
         AttendanceBulk(who, c, d, rs) = [status |-> 403, attendance |-> attendance]
    /\ \A a \in AssignmentRefs :
         /\ \A n \in NameIn : AssignmentsPut(who, a, n).assignments = assignments
         /\ AssignmentsDelete(who, a) = [status |-> 403, assignments |-> assignments]
    /\ \A g \in GradeRefs :
         /\ \A sc \in ScoreIn : GradesPut(who, g, sc).grades = grades
         /\ GradesDelete(who, g) = [status |-> 403, grades |-> grades]
    /\ \A a \in AttendanceRefs :
         /\ \A st \in StatusIn : AttendancePut(who, a, st).attendance = attendance
         /\ AttendanceDelete(who, a) = [status |-> 403, attendance |-> attendance]
    /\ \A s \in UserRefs, n \in NameIn :
         InfractionsPost(who, s, n) = [status |-> 403, infractions |-> infractions]
    /\ \A i \in InfractionRefs :
         /\ \A n \in NameIn : InfractionsPut(who, i, n).infractions = infractions
         /\ InfractionsDelete(who, i) = [status |-> 403, infractions |-> infractions]

\* A student has changed the firstName and the email of the student's own record,
\* in a store that holds courses, assignments, grades, attendance and an infraction.
C5_Witness ==
  /\ users[4].live
  /\ users[4].firstName = "n2"
  /\ users[4].email = MaxUsers + 1
  /\ users[4].role = "student"
  /\ LiveIds(courses) # {}
  /\ LiveIds(assignments) # {}
  /\ LiveIds(grades) # {}
  /\ LiveIds(attendance) # {}
  /\ LiveIds(infractions) # {}
  /\ [id |-> 4, role |-> "student"] \in Students

NonAdmins == {t \in tokens : t.role # "admin"}
Admins    == {t \in tokens : t.role = "admin"}

\* an update from a non-admin whose role value is in roleValues is forbidden (403)
\* and leaves the users collection as it is
RoleUpdateRefused(roleValues) ==
  \A who \in NonAdmins, id \in UserRefs, b \in Bodies :
    b.role \in roleValues =>
      UsersPut(who, id, b.firstName, b.lastName, b.email, b.role)
        = [status |-> 403, users |-> users]

\* a step that changes the role of a user is PUT /users/:id issued with an admin token
RoleChangedByAdmin ==
  \A u \in Ids(users) :
    (users[u].live /\ users'[u].live /\ users'[u].role # users[u].role) =>
      \E who \in Admins, b \in Bodies :
        users' = UsersPut(who, u, b.firstName, b.lastName, b.email, b.role).users

\* C6: over any sequence of requests a User's role changes only in a step that is
\* an update issued with an admin identity, and an update from a non-admin that
\* carries a non-empty role value is forbidden (403) and changes no field of the
\* target User, also when the value is the role the user already has.
C6_RoleChangesOnlyByAdmin ==
  /\ [](RoleUpdateRefused(Roles))
  /\ [][RoleChangedByAdmin]_vars

\* C6 as stated: the update is refused whenever the body has a role field,
\* the empty string included.
C6_AnyRoleFieldRefused == RoleUpdateRefused(RoleIn \ {NoField})

\* An admin has made student 4 a teacher, student 5 still holds a student token,
\* and 5's update of the own record with role "student" is refused.
C6_Witness ==
  /\ users[4].live
  /\ users[4].role = "teacher"
  /\ users[5].live
  /\ users[5].role = "student"
  /\ [id |-> 5, role |-> "student"] \in NonAdmins
  /\ UsersPut([id |-> 5, role |-> "student"], 5, "n2", NoField, None, "student").status = 403

\* Statistics of a course: the grades of course 1 are any sequence of at most
\* MaxScores grades of its student.
StatScores == {60, 70, 80, 90}

InitStats ==
  /\ Accounts
  /\ courses = TwoCourses
  /\ assignments = <<>>
  /\ \E n \in 0..MaxScores :
       \E scores \in [1..n -> StatScores] :
         grades = [g \in 1..n |-> NewGrade(4, 1, scores[g], 2)]
  /\ attendance = <<>>
  /\ infractions = <<>>

NextStats ==
  \/ DoGradesStats(tokens)
  \/ DoGradesDelete(tokens)

SpecStats == InitStats /\ [][NextStats]_vars

\* A store holding an admin and a student, each with a token, and nothing else.
InitAdminAndStudent ==
  /\ users = <<User("admin", 1), User("student", 2)>>
  /\ tokens = {[id |-> 1, role |-> "admin"], [id |-> 2, role |-> "student"]}
  /\ procs = [p \in 1..NProcs |-> Idle]
  /\ clock = 0
  /\ courses = <<>>
  /\ assignments = <<>>
  /\ grades = <<>>
  /\ attendance = <<>>
  /\ infractions = <<>>

\* A user signs in: the token carries the id and the role of the account, which
\* authenticateToken hands to the handlers as req.user.
IssueToken ==
  \E u \in LiveIds(users) :
    /\ tokens' = tokens \cup {[id |-> u, role |-> users[u].role]}
    /\ UNCHANGED <<users, courses, assignments, grades, attendance, infractions, procs, clock>>

\* From the first account to the statistics of a course.
NextEndToEnd ==
  \/ DoUsersPost(tokens)
  \/ IssueToken
  \/ DoCoursesPost(tokens)
  \/ DoCoursesEnroll(tokens)
  \/ DoGradesPost(tokens)
  \/ DoGradesStats(tokens)

SpecEndToEnd == InitAdminAndStudent /\ [][NextEndToEnd]_vars

\* Time passes between two requests.
Tick ==
  /\ clock < MaxClock
  /\ clock' = clock + 1
  /\ UNCHANGED <<db, tokens, procs>>

\* Updates of the grades and the attendance records of the two courses, over time.
NextStamps ==
  \/ Tick
  \/ DoGradesPut(tokens)
  \/ DoAttendancePut(tokens)
  \/ DoAttendanceBulkOf(tokens, RaceDates, RaceRecords)

\* The two courses, with one grade and one attendance record of the first.
InitRecorded ==
  /\ Accounts
  /\ courses = TwoCourses
  /\ assignments = <<>>
  /\ grades = <<NewGrade(4, 1, 85, 2)>>
  /\ attendance = <<NewAttendance(4, 1, <<1, 0>>, "absent", 2)>>
  /\ infractions = <<>>

SpecStamps == InitRecorded /\ [][NextStamps]_vars

\* A student's grades in the courses of several teachers, and the per-student view.
NextGradeViews ==
  \/ DoCoursesEnroll(Admins)
  \/ DoCoursesUnenroll(Admins)
  \/ DoGradesPost(Teachers)
  \/ DoGradesDelete(Teachers)
  \/ DoGradesOfStudent(tokens)

SpecGradeViews == InitEnrolled /\ [][NextGradeViews]_vars

\* One course, of teacher 2 with student 4 enrolled: the store after one POST
\* /courses and one enrolment.
InitOneCourse ==
  /\ Accounts
  /\ courses = <<TwoCourses[1]>>
  /\ assignments = <<>>
  /\ grades = <<>>
  /\ attendance = <<>>
  /\ infractions = <<>>

\* the role updates that make a user a teacher
PromoteBodies == {b \in RoleBodies : b.role = "teacher"}

\* Courses, enrolment and the admin's user management.
NextRefs ==
  \/ DoCoursesPost(Admins)
  \/ DoCoursesPut(Admins)
  \/ DoCoursesEnroll(Admins)
  \/ DoCoursesUnenroll(Admins)
  \/ DoUsersPut(Admins, PromoteBodies)
  \/ DoUsersDelete(Admins)

SpecRefs == InitOneCourse /\ [][NextRefs]_vars

\* C7: a Course create by a teacher T that names a teacherId other than T is
\* rejected and stores no Course.
C7_TeacherCreatesOnlyOwnCourse ==
  \A who \in Teachers, n \in NameIn, k \in Codes, t \in UserRefs :
    t # who.id =>
      LET rsp == CoursesPost(who, n, k, t)
      IN rsp.status # 201 /\ rsp.courses = courses

\* C8: with the requests handled one at a time, the store holds at most one
\* Attendance record per student, course and calendar day.
C8_OneRecordPerDay ==
  \A a, b \in LiveIds(attendance) :
    (/\ attendance[a].studentId = attendance[b].studentId
     /\ attendance[a].courseId = attendance[b].courseId
     /\ attendance[a].date[1] = attendance[b].date[1]) => a = b

\* C9: under every interleaving of attendance creates and bulk upserts, the
\* store never holds two Attendance records with the same student, course and date.
C9_NoDuplicateKey ==
  \A a, b \in LiveIds(attendance) :
    (/\ attendance[a].studentId = attendance[b].studentId
     /\ attendance[a].courseId = attendance[b].courseId
     /\ attendance[a].date = attendance[b].date) => a = b

\* how often studentId occurs in the students array
Occurrences(students, studentId) ==
  Cardinality({i \in 1..Len(students) : students[i] = studentId})

\* C10: once NProcs concurrent enroll requests for the same course and student
\* have all been answered, and one of them was accepted, the students array of
\* the course holds the student exactly once.
C10_EnrolledExactlyOnce ==
  \A id \in LiveIds(courses), studentId \in Enrollable :
    (/\ \A p \in 1..NProcs : /\ procs[p].pc = "done"
                             /\ procs[p].op = "enroll"
                             /\ procs[p].key = <<id, studentId>>
     /\ \E p \in 1..NProcs : procs[p].status = 200)
      => Occurrences(courses[id].students, studentId) = 1

\* C11: with the course requests handled one at a time, the students array of
\* every Course holds each student at most once.
C11_StudentsAtMostOnce ==
  \A c \in LiveIds(courses), s \in UserRefs :
    Occurrences(courses[c].students, s) <= 1

\* a course that took two enrolments
C11_Witness ==
  \E c \in LiveIds(courses) :
    /\ Len(courses[c].students) = 2
    /\ \A s \in Enrollable : Occurrences(courses[c].students, s) = 1

\* the callers that pass the checks of enroll and unenroll on course id
MayEnroll(id) == {who \in tokens : enrollCourseChecks(who, id) = 0}

\* C12: an enroll request by an authorized caller for a student who is already
\* in the students array of the course is answered 400 and leaves the array as
\* it was.
C12_EnrolledStudentRejected ==
  \A id \in LiveIds(courses), studentId \in UserRefs :
    includes(courses[id].students, studentId) =>
      \A who \in MayEnroll(id) :
        LET rsp == CoursesEnroll(who, id, studentId)
        IN rsp.status = 400 /\ rsp.courses = courses

\* student 4 is enrolled in a course and its teacher's second enroll is refused
C12_Witness ==
  \E id \in LiveIds(courses) :
    /\ includes(courses[id].students, 4)
    /\ \E who \in MayEnroll(id) :
         who.role = "teacher" /\ CoursesEnroll(who, id, 4).status = 400

\* an unenroll request by an authorized caller succeeds, and leaves the store
\* as it is when the student is not in the array
UnenrollOfAbsentIsNoOp ==
  \A id \in LiveIds(courses), studentId \in UserRefs : \A who \in MayEnroll(id) :
    LET rsp == CoursesUnenroll(who, id, studentId)
    IN /\ rsp.status = 200
       /\ ~includes(courses[id].students, studentId) => rsp.courses = courses

\* a step that stores the outcome of the unenroll of an enrolled student leads to
\* a state where the same request succeeds again and changes nothing
UnenrollTwiceAsOnce ==
  \A id \in LiveIds(courses) :
    \A studentId \in {courses[id].students[i] : i \in 1..Len(courses[id].students)},
       who \in MayEnroll(id) :
      courses' = CoursesUnenroll(who, id, studentId).courses =>
        /\ CoursesUnenroll(who, id, studentId).status' = 200
        /\ CoursesUnenroll(who, id, studentId).courses' = courses'

\* C13: an unenroll request by an authorized caller for a student who is not in
\* the students array succeeds and leaves the array unchanged; the request
\* repeated after itself succeeds again and yields the array of the first one.
C13_UnenrollIdempotent ==
  /\ [](UnenrollOfAbsentIsNoOp)
  /\ [][UnenrollTwiceAsOnce]_vars

\* a course with student 5 enrolled and student 4 not, whose teacher's unenroll
\* of student 4 is answered 200
C13_Witness ==
  \E id \in LiveIds(courses) :
    /\ includes(courses[id].students, 5)
    /\ ~includes(courses[id].students, 4)
    /\ \E who \in MayEnroll(id) :
         /\ who.role = "teacher"
         /\ CoursesUnenroll(who, id, 4).status = 200
         /\ CoursesUnenroll(who, id, 4).courses = courses

\* the live records of store with the given student, course and date
RecordsOf(store, studentId, courseId, date) ==
  {a \in LiveIds(store) : /\ store[a].studentId = studentId
                          /\ store[a].courseId = courseId
                          /\ store[a].date = date}

\* how many entries of list carry studentId
EntriesFor(list, studentId) ==
  Cardinality({k \in 1..Len(list) : list[k].studentId = studentId})

\* how many tuples of records carry studentId
TuplesFor(records, studentId) ==
  Cardinality({i \in 1..Len(records) : records[i].studentId = studentId})

\* C14: a bulk attendance request that passed the course checks is answered 200
\* with the lists results and errors, one entry per tuple in all; every tuple of
\* an enrolled student has its entry in results and its record in the store,
\* every tuple of a student who is not enrolled has its entry in errors and
\* leaves the records of that student as they were, whatever tuples precede it.
C14_BulkPerTuple ==
  \A who \in tokens, courseId \in CourseRefs, date \in Dates, records \in RecordsIn :
    bulkChecks(who, courseId) = 200 =>
      LET rsp      == AttendanceBulk(who, courseId, date, records)
          body     == AttendanceBulkBody(who, courseId, date, records)
          students == courses[courseId].students
      IN /\ rsp.status = 200
         /\ \A i \in 1..Len(records) :
              LET studentId == records[i].studentId
              IN IF includes(students, studentId)
                   THEN /\ Cardinality(RecordsOf(rsp.attendance, studentId, courseId, date)) = 1
                        /\ \A a \in RecordsOf(rsp.attendance, studentId, courseId, date) :
                             rsp.attendance[a].recordedBy = who.id
                   ELSE /\ RecordsOf(rsp.attendance, studentId, courseId, date)
                             = RecordsOf(attendance, studentId, courseId, date)
                        /\ \A a \in RecordsOf(attendance, studentId, courseId, date) :
                             rsp.attendance[a] = attendance[a]
         /\ body.status = 200
         /\ Len(body.results) + Len(body.errors) = Len(records)
         /\ \A i \in 1..Len(records) :
              LET studentId == records[i].studentId
              IN IF includes(students, studentId)
                   THEN /\ EntriesFor(body.results, studentId) = TuplesFor(records, studentId)
                        /\ EntriesFor(body.errors, studentId) = 0
                   ELSE /\ EntriesFor(body.errors, studentId) = TuplesFor(records, studentId)
                        /\ EntriesFor(body.results, studentId) = 0

\* course 1, with student 4 enrolled and student 5 not, holds the record of a
\* request by its teacher whose first tuple names student 5 and whose second
\* names student 4
C14_Witness ==
  LET who     == [id |-> 2, role |-> "teacher"]
      records == <<[studentId |-> 5, status |-> "absent"],
                   [studentId |-> 4, status |-> "excused"]>>
      body    == AttendanceBulkBody(who, 1, <<1, 0>>, records)
  IN /\ bulkChecks(who, 1) = 200
     /\ RecordsOf(attendance, 5, 1, <<1, 0>>) = {}
     /\ \E a \in RecordsOf(attendance, 4, 1, <<1, 0>>) :
          attendance[a].status = "excused" /\ attendance[a].recordedBy = 2
     /\ AttendanceBulk(who, 1, <<1, 0>>, records).attendance = attendance
     /\ Len(body.results) = 1
     /\ Len(body.errors) = 1

\* the ids of refs that name no document of store
Missing(store, refs) == {id \in refs : findById(store, id) = None}

\* get, update and delete by an id that names no document answer 404
MissingByIdNotFound(callers) ==
  \A who \in callers :
    /\ \A id \in Missing(users, UserRefs) :
         /\ UsersGet(who, id).status = 404
         /\ UsersPut(who, id, "n2", NoField, None, NoField).status = 404
         /\ UsersDelete(who, id).status = 404
    /\ \A id \in Missing(courses, CourseRefs) :
         /\ CoursesGet(who, id).status = 404
         /\ CoursesPut(who, id, "n2", None).status = 404
         /\ CoursesDelete(who, id).status = 404
    /\ \A id \in Missing(assignments, AssignmentRefs) :
         /\ AssignmentsGet(who, id).status = 404
         /\ AssignmentsPut(who, id, "n2").status = 404
         /\ AssignmentsDelete(who, id).status = 404
    /\ \A id \in Missing(grades, GradeRefs) :
         /\ GradesGet(who, id).status = 404
         /\ GradesPut(who, id, 85).status = 404
         /\ GradesDelete(who, id).status = 404
    /\ \A id \in Missing(attendance, AttendanceRefs) :
         /\ AttendanceGet(who, id).status = 404
         /\ AttendancePut(who, id, "excused").status = 404
         /\ AttendanceDelete(who, id).status = 404
    /\ \A id \in Missing(infractions, InfractionRefs) :
         /\ InfractionsGet(who, id).status = 404
         /\ InfractionsPut(who, id, "n2").status = 404
         /\ InfractionsDelete(who, id).status = 404

\* the create of a Grade, Assignment or Attendance record that names a courseId
\* of no Course answers 404; the rest of the request is well formed
MissingCourseNotFound(callers) ==
  \A who \in callers, courseId \in Missing(courses, CourseRefs) :
    /\ \A studentId \in LiveStudents :
         /\ GradesPost(who, studentId, courseId, 85).status = 404
         /\ AttendancePost(who, studentId, courseId, <<1, 0>>, "absent").status = 404
    /\ AssignmentsPost(who, "n2", courseId).status = 404

\* C15: a get, update or delete by id of a User, Course, Assignment, Grade,
\* Attendance or Infraction that does not exist, and a create of a Grade,
\* Assignment or Attendance record naming a Course that does not exist, is
\* answered 404 whatever the role and id of the caller.
C15_MissingTargetIsNotFound ==
  /\ MissingCourseNotFound(tokens)
  /\ MissingByIdNotFound(tokens)

\* the live records of store whose courseId names no Course
Orphans(store) == {r \in LiveIds(store) : findById(courses, store[r].courseId) = None}

OrphanAssignmentNotFound ==
  \A who \in Teachers, id \in Orphans(assignments) :
    /\ AssignmentsGet(who, id).status = 404
    /\ AssignmentsPut(who, id, "n2").status = 404
    /\ AssignmentsDelete(who, id).status = 404

OrphanGradeNotFound ==
  \A who \in Teachers, id \in Orphans(grades) :
    /\ GradesGet(who, id).status = 404
    /\ GradesPut(who, id, 85).status = 404
    /\ GradesDelete(who, id).status = 404

OrphanAttendanceNotFound ==
  \A who \in Teachers, id \in Orphans(attendance) :
    /\ AttendanceGet(who, id).status = 404
    /\ AttendancePut(who, id, "excused").status = 404
    /\ AttendanceDelete(who, id).status = 404

\* C16: a get, update or delete by a teacher of an Assignment, Grade or
\* Attendance record whose Course does not exist is answered 404.
C16_OrphanRecordIsNotFound ==
  /\ OrphanAssignmentNotFound
  /\ OrphanGradeNotFound
  /\ OrphanAttendanceNotFound

\* the roles an endpoint admits: the roles of its authorizeRoles, and for
\* GET /users the roles of the check that opens its handler
AllowedRoles(route) ==
  IF route.name = "users.list" THEN {"admin", "teacher"} ELSE route.roles

\* a request without a verified token stops in authenticateToken, a request of a
\* role the endpoint does not admit never reaches a storage call, and both are
\* answered 401 or 403 with no storage call made
RejectedBeforeStorage ==
  \A p \in 1..NProcs :
    LET req == procs[p]
    IN req.pc # "idle" =>
         /\ ~req.header.verified =>
              /\ req.pc \in {"authenticateToken", "done"}
              /\ req.pc = "done" =>
                   /\ req.by = "authenticateToken"
                   /\ req.status \in {401, 403}
                   /\ req.storage = 0
         /\ (req.header.verified /\ req.header.payload.role \notin AllowedRoles(req.route)) =>
              /\ req.pc # "storage"
              /\ req.pc = "done" => req.status = 403 /\ req.storage = 0

\* the handler is entered from the last middleware of the chain only, and the
\* store changes only in the storage step of a request with a verified token
\* of an admitted role
ChecksPrecedeHandler ==
  /\ \A p \in 1..NProcs :
       (procs[p].pc # "handler" /\ procs'[p].pc = "handler") =>
         /\ procs[p].pc = procs[p].route.chain[Len(procs[p].route.chain) - 1]
         /\ procs[p].header.verified
         /\ procs'[p].user = procs[p].header.payload
         /\ procs[p].pc = "authorizeRoles" =>
              procs[p].header.payload.role \in procs[p].route.roles
  /\ db' # db =>
       \E p \in 1..NProcs :
         /\ procs[p].pc = "storage"
         /\ procs[p].header.verified
         /\ procs[p].header.payload.role \in AllowedRoles(procs[p].route)

\* C17: on every endpoint a request without a verified identity is rejected, a
\* request of a role outside the allowed roles of a role-restricted endpoint is
\* rejected with 403, and in both cases the request makes no storage call: the
\* authentication check and the role check run before the handler.
C17_ChecksBeforeStorage ==
  /\ [](RejectedBeforeStorage)
  /\ [][ChecksPrecedeHandler]_vars

\* DELETE /users/4 with the token of student 4, answered 403 by authorizeRoles
C17_Witness ==
  \E p \in 1..NProcs :
    /\ procs[p].pc = "done"
    /\ procs[p].route.name = "users.delete"
    /\ procs[p].header = Bearer([id |-> 4, role |-> "student"])
    /\ procs[p].by = "authorizeRoles"
    /\ procs[p].status = 403
    /\ procs[p].storage = 0

\* the decision a status carries: the request was let through to the record
\* unless it was answered 401 or 403
Allowed(status) == status \notin {401, 403}

CourseDeleteAsUpdate ==
  \A who \in Teachers, id \in LiveIds(courses) :
    Allowed(CoursesDelete(who, id).status) <=> Allowed(CoursesPut(who, id, "n2", None).status)

AssignmentDeleteAsUpdate ==
  \A who \in Teachers, id \in LiveIds(assignments) :
    Allowed(AssignmentsDelete(who, id).status) <=> Allowed(AssignmentsPut(who, id, "n2").status)

GradeDeleteAsUpdate ==
  \A who \in Teachers, id \in LiveIds(grades) :
    Allowed(GradesDelete(who, id).status) <=> Allowed(GradesPut(who, id, 85).status)

AttendanceDeleteAsUpdate ==
  \A who \in Teachers, id \in LiveIds(attendance) :
    Allowed(AttendanceDelete(who, id).status)
      <=> Allowed(AttendancePut(who, id, "excused").status)

InfractionDeleteAsUpdate ==
  \A who \in Teachers, id \in LiveIds(infractions) :
    Allowed(InfractionsDelete(who, id).status) <=> Allowed(InfractionsPut(who, id, "n2").status)

\* C18: for every stored Course, Assignment, Grade, Attendance record and
\* Infraction, a teacher's delete request is allowed exactly when the same
\* teacher's update request on that record is allowed.
C18_TeacherDeleteAsUpdate ==
  /\ AssignmentDeleteAsUpdate
  /\ GradeDeleteAsUpdate
  /\ AttendanceDeleteAsUpdate
  /\ CourseDeleteAsUpdate
  /\ InfractionDeleteAsUpdate

\* the live records of store that match the filters: fields maps a field name
\* to the value the caller asked for, None where the caller gave no filter
Matching(store, fields) ==
  {r \in LiveIds(store) :
     \A f \in DOMAIN fields : fields[f] # None => store[r][f] = fields[f]}

AdminListsAllCourses ==
  \A who \in Admins, teacherId \in Opt(UserRefs) :
    CoursesList(who, teacherId)
      = [status |-> 200, res |-> Matching(courses, [teacherId |-> teacherId])]

AdminListsAllAssignments ==
  \A who \in Admins, courseId \in Opt(CourseRefs) :
    AssignmentsList(who, courseId)
      = [status |-> 200, res |-> Matching(assignments, [courseId |-> courseId])]

AdminListsAllGrades ==
  \A who \in Admins, studentId \in Opt(UserRefs), courseId \in Opt(CourseRefs) :
    GradesList(who, studentId, courseId)
      = [status |-> 200,
         res |-> Matching(grades, [studentId |-> studentId, courseId |-> courseId])]

AdminListsAllAttendance ==
  \A who \in Admins, studentId \in Opt(UserRefs), courseId \in Opt(CourseRefs) :
    AttendanceList(who, studentId, courseId)
      = [status |-> 200,
         res |-> Matching(attendance, [studentId |-> studentId, courseId |-> courseId])]

AdminListsAllInfractions ==
  \A who \in Admins, studentId \in Opt(UserRefs) :
    InfractionsList(who, studentId)
      = [status |-> 200, res |-> Matching(infractions, [studentId |-> studentId])]

AdminListsAllUsers ==
  \A who \in Admins : UsersList(who) = [status |-> 200, res |-> LiveIds(users)]

\* C19: for an admin caller the records eligible for the response of a Course,
\* Assignment, Grade, Attendance, Infraction or User list are exactly the stored
\* records that match the filters of the request, of every owner and every role.
C19_AdminListsUnrestricted ==
  /\ AdminListsAllCourses
  /\ AdminListsAllAssignments
  /\ AdminListsAllGrades
  /\ AdminListsAllAttendance
  /\ AdminListsAllInfractions
  /\ AdminListsAllUsers

\* C20: in every state reached by course and user operations the teacherId of
\* each Course, when set, names an existing User with role teacher, and every
\* member of its students names an existing User with role student.
C20_CourseRefsValid ==
  \A c \in LiveIds(courses) :
    /\ courses[c].teacherId # None =>
         findUserWithRole(courses[c].teacherId, "teacher") # None
    /\ \A i \in 1..Len(courses[c].students) :
         findUserWithRole(courses[c].students[i], "student") # None

\* a Grade create for a student who is not in the students array of the course
\* stores nothing, and is answered 400 when the caller passed authorizeRoles
GradeForStrangerRejected ==
  \A who \in tokens, studentId \in UserRefs, courseId \in LiveIds(courses),
     score \in ScoreIn :
    ~includes(courses[courseId].students, studentId) =>
      LET rsp == GradesPost(who, studentId, courseId, score)
      IN /\ rsp.grades = grades
         /\ authorizeRoles({"admin", "teacher"}, who) => rsp.status = 400

\* a step that stores a new Grade stores one whose student is, before the step,
\* in the students array of its course
GradeStoredForEnrolled ==
  Len(grades') > Len(grades) =>
    LET g == grades'[Len(grades')]
    IN /\ Live(courses, g.courseId)
       /\ includes(courses[g.courseId].students, g.studentId)

\* C21: the create operation stores a Grade only if its studentId is, at the
\* time of the request, in the students of its courseId; a create for a student
\* who is not enrolled is rejected with 400 and stores nothing.
C21_GradeNeedsEnrollment ==
  /\ [](GradeForStrangerRejected)
  /\ [][GradeStoredForEnrolled]_vars

\* course 1 holds a grade of its student 4, and its teacher's create for
\* student 5, who is not enrolled in it, is answered 400
C21_Witness ==
  /\ \E g \in LiveIds(grades) : grades[g].studentId = 4 /\ grades[g].courseId = 1
  /\ Live(courses, 1)
  /\ ~includes(courses[1].students, 5)
  /\ GradesPost([id |-> 2, role |-> "teacher"], 5, 1, 85).status = 400


\* ---------------------------------------------------------------------------
\* C22: the statistics of a course return count = the number of its grades,
\* average = their sum divided by count, highest and lowest = the greatest and
\* the least score, and median = the middle score in ascending order (odd count)
\* or the mean of the two middle scores (even count): 75 for 60,70,80,90 and 70
\* for 60,70,80.  For a course without grades count is 0 and the other four are
\* null, not 0.
GradesIn(courseId) ==
  {g \in 1..Len(grades) : grades[g].live /\ grades[g].courseId = courseId}

RECURSIVE TotalOf(_)
TotalOf(gs) ==
  IF gs = {} THEN 0
  ELSE LET g == CHOOSE x \in gs : TRUE IN grades[g].score + TotalOf(gs \ {g})

\* the k-th score in ascending order, by rank
Kth(gs, k) ==
  CHOOSE v \in {grades[g].score : g \in gs} :
    /\ Cardinality({g \in gs : grades[g].score < v}) < k
    /\ Cardinality({g \in gs : grades[g].score <= v}) >= k

MiddleOf(gs) ==
  LET n == Cardinality(gs)
  IN IF n % 2 = 1 THEN Quot(Kth(gs, (n + 1) \div 2), 1)
     ELSE Quot(Kth(gs, n \div 2) + Kth(gs, n \div 2 + 1), 2)

ScoresAre(gs, bag) ==
  \A v \in StatScores :
    Cardinality({g \in gs : grades[g].score = v})
      = Cardinality({i \in 1..Len(bag) : bag[i] = v})

C22_StatsOfCourse ==
  \A who \in tokens, courseId \in LiveIds(courses) :
    LET rsp == GradesStats(who, courseId)
        gs  == GradesIn(courseId)
    IN rsp.status = 200 =>
         /\ rsp.stats.count = Cardinality(gs)
         /\ gs = {} =>
              /\ rsp.stats.average = Null /\ rsp.stats.highest = Null
              /\ rsp.stats.lowest = Null /\ rsp.stats.median = Null
              /\ \A f \in {"average", "highest", "lowest", "median"} :
                   ~SameNumber(rsp.stats[f], Quot(0, 1))
         /\ gs # {} =>
              /\ SameNumber(rsp.stats.average, Quot(TotalOf(gs), Cardinality(gs)))
              /\ \E g \in gs : SameNumber(rsp.stats.highest, Quot(grades[g].score, 1))
              /\ \A g \in gs : rsp.stats.highest.num >= grades[g].score * rsp.stats.highest.den
              /\ \E g \in gs : SameNumber(rsp.stats.lowest, Quot(grades[g].score, 1))
              /\ \A g \in gs : rsp.stats.lowest.num <= grades[g].score * rsp.stats.lowest.den
              /\ SameNumber(rsp.stats.median, MiddleOf(gs))
              /\ ScoresAre(gs, <<60, 70, 80, 90>>) => SameNumber(rsp.stats.median, Quot(75, 1))
              /\ ScoresAre(gs, <<60, 70, 80>>) => SameNumber(rsp.stats.median, Quot(70, 1))

\* the four scores are stored out of order and the course's teacher asks
C22_Witness ==
  /\ Len(grades) = 4
  /\ <<grades[1].score, grades[2].score, grades[3].score, grades[4].score>>
       = <<90, 60, 80, 70>>
  /\ \A g \in 1..4 : grades[g].live
  /\ LET rsp == GradesStats([id |-> 2, role |-> "teacher"], 1)
     IN /\ rsp.status = 200
        /\ rsp.stats.count = 4
        /\ SameNumber(rsp.stats.median, Quot(75, 1))
        /\ SameNumber(rsp.stats.average, Quot(75, 1))


\* ---------------------------------------------------------------------------
\* C23: from a store holding an admin and a student S, every step of the
\* sequence succeeds: the admin creates a User with role teacher; that teacher
\* creates a Course without naming a teacherId; the teacher enrolls S; the
\* teacher creates a Grade for S in that course with score 85; and the
\* statistics of that course then return count 1, average 85 and median 85.
TheAdmin   == [id |-> 1, role |-> "admin"]
TheStudent == CHOOSE t \in Students : \A u \in Students : t.id <= u.id

\* the teachers the admin created, signed in
CreatedTeachers == {t \in Teachers : t.id > 2 /\ Live(users, t.id)}

\* the courses a created teacher made without naming a teacherId: they are theirs
CoursesMadeBy(t) == {c \in LiveIds(courses) : courses[c].teacherId = t.id}

\* step 1: the admin's request with every field and an unused email is stored
AdminCreatesTeacher ==
  \A e \in EmailIn \ {None} :
    ~emailInUse(e, None) =>
      LET rsp == UsersPost(TheAdmin, "n1", "n1", e, "teacher")
      IN /\ rsp.status = 201
         /\ Len(rsp.users) = Len(users) + 1
         /\ rsp.users[Len(rsp.users)].role = "teacher"
         /\ rsp.users[Len(rsp.users)].live

\* step 2: the teacher's request without teacherId and with an unused code is
\* stored as a course of that teacher
TeacherCreatesCourse ==
  \A t \in CreatedTeachers, k \in Codes :
    (\A c \in LiveIds(courses) : courses[c].courseCode # k) =>
      LET rsp == CoursesPost(t, "n1", k, None)
      IN /\ rsp.status = 201
         /\ Len(rsp.courses) = Len(courses) + 1
         /\ rsp.courses[Len(rsp.courses)].teacherId = t.id
         /\ rsp.courses[Len(rsp.courses)].students = <<>>

\* step 3: the teacher enrolls S in the course
TeacherEnrollsStudent ==
  \A t \in CreatedTeachers :
    \A c \in CoursesMadeBy(t) :
      ~includes(courses[c].students, TheStudent.id) =>
        LET rsp == CoursesEnroll(t, c, TheStudent.id)
        IN /\ rsp.status = 200
           /\ includes(rsp.courses[c].students, TheStudent.id)
           /\ rsp.courses[c].teacherId = t.id

\* step 4: the teacher grades S in the course with 85
TeacherGradesStudent ==
  \A t \in CreatedTeachers :
    \A c \in CoursesMadeBy(t) :
      includes(courses[c].students, TheStudent.id) =>
        LET rsp == GradesPost(t, TheStudent.id, c, 85)
        IN /\ rsp.status = 201
           /\ Len(rsp.grades) = Len(grades) + 1
           /\ rsp.grades[Len(rsp.grades)]
                = [live |-> TRUE, studentId |-> TheStudent.id, courseId |-> c,
                   score |-> 85, gradedBy |-> t.id, gradedAt |-> clock]

\* the course holds the one grade of step 4
GradedOnce(c) ==
  \E g \in 1..Len(grades) :
    /\ {h \in 1..Len(grades) : grades[h].live /\ grades[h].courseId = c} = {g}
    /\ grades[g].studentId = TheStudent.id
    /\ grades[g].score = 85

\* step 5: the statistics of the course
StatisticsOfTheCourse ==
  \A t \in CreatedTeachers :
    \A c \in CoursesMadeBy(t) :
      GradedOnce(c) =>
        LET rsp == GradesStats(t, c)
        IN /\ rsp.status = 200
           /\ rsp.stats.count = 1
           /\ SameNumber(rsp.stats.average, Quot(85, 1))
           /\ SameNumber(rsp.stats.median, Quot(85, 1))

\* the steps follow each other: a stored step leaves the store the next one needs
StepsInOrder ==
  /\ (Len(users') > Len(users) /\ users'[Len(users')].role = "teacher")
       => Live(users', Len(users')) /\ Len(users') > 2
  /\ \A t \in CreatedTeachers :
       /\ (Len(courses') > Len(courses) /\ courses'[Len(courses')].teacherId = t.id)
            => Len(courses') \in {c \in LiveIds(courses') : courses'[c].teacherId = t.id}
       /\ \A c \in CoursesMadeBy(t) :
            Len(grades') > Len(grades) /\ grades'[Len(grades')].courseId = c
              => includes(courses[c].students, grades'[Len(grades')].studentId)

C23_EndToEnd ==
  /\ [](AdminCreatesTeacher /\ TeacherCreatesCourse /\ TeacherEnrollsStudent
          /\ TeacherGradesStudent /\ StatisticsOfTheCourse)
  /\ [][StepsInOrder]_vars

\* the state after the four steps, in which the teacher asks for the statistics
C23_Witness ==
  /\ Len(users) = 3 /\ users[3].role = "teacher"
  /\ [id |-> 3, role |-> "teacher"] \in tokens
  /\ Len(courses) = 1 /\ courses[1].teacherId = 3 /\ courses[1].students = <<2>>
  /\ grades = <<NewGrade(2, 1, 85, 3)>>
  /\ LET rsp == GradesStats([id |-> 3, role |-> "teacher"], 1)
     IN /\ rsp.status = 200
        /\ rsp.stats.count = 1
        /\ SameNumber(rsp.stats.average, Quot(85, 1))
        /\ SameNumber(rsp.stats.median, Quot(85, 1))


\* ---------------------------------------------------------------------------
\* C24: after every successful update of a Grade by identity U its gradedBy is U
\* and its gradedAt is the time of that update; after every successful update of
\* an Attendance record by U, through update-by-id or through a bulk upsert that
\* hits an existing record, its recordedBy is U and its recordedAt is the time of
\* that update; no successful update leaves an earlier modifier or timestamp.
GradeUpdateStamped ==
  \A who \in tokens, id \in GradeRefs, score \in ScoreIn :
    LET rsp == GradesPut(who, id, score)
    IN rsp.status = 200 =>
         /\ rsp.grades[id].gradedBy = who.id
         /\ rsp.grades[id].gradedAt = clock

AttendanceUpdateStamped ==
  \A who \in tokens, id \in AttendanceRefs, st \in StatusIn \cup {NoField} :
    LET rsp == AttendancePut(who, id, st)
    IN rsp.status = 200 =>
         /\ rsp.attendance[id].recordedBy = who.id
         /\ rsp.attendance[id].recordedAt = clock

BulkUpsertStamped ==
  \A who \in tokens, courseId \in CourseRefs, date \in RaceDates,
     records \in RaceRecords :
    LET rsp == AttendanceBulk(who, courseId, date, records)
    IN rsp.status = 200 =>
         \A i \in 1..Len(records) :
           LET hit == findAttendance(attendance, records[i].studentId, courseId, date)
           IN (hit # None /\ includes(courses[courseId].students, records[i].studentId)) =>
                /\ rsp.attendance[hit].recordedBy = who.id
                /\ rsp.attendance[hit].recordedAt = clock

\* a record that an update changed carries the time of the update, not an earlier one
NoEarlierStamp ==
  /\ \A id \in LiveIds(grades) :
       grades'[id] # grades[id] =>
         /\ grades'[id].gradedAt = clock
         /\ grades'[id].gradedAt >= grades[id].gradedAt
         /\ \E who \in tokens : grades'[id].gradedBy = who.id
                                  /\ gradeWriteStatus(who, id) = 200
  /\ \A id \in LiveIds(attendance) :
       attendance'[id] # attendance[id] =>
         /\ attendance'[id].recordedAt = clock
         /\ attendance'[id].recordedAt >= attendance[id].recordedAt

C24_UpdatesStamped ==
  /\ [](GradeUpdateStamped /\ AttendanceUpdateStamped /\ BulkUpsertStamped)
  /\ [][NoEarlierStamp]_vars

\* the admin updated, at a later time, a grade and an attendance record of teacher 2
C24_Witness ==
  /\ clock = MaxClock
  /\ grades[1].gradedBy = 1 /\ grades[1].gradedAt = MaxClock
  /\ attendance[1].recordedBy = 1 /\ attendance[1].recordedAt = 1
  /\ Len(attendance) = 2
  /\ attendance[2].recordedBy = 3 /\ attendance[2].recordedAt = MaxClock


\* ---------------------------------------------------------------------------
\* C25: after a successful create or update of an Infraction, resolved is true
\* whenever the request supplied a non-empty resolution and no explicit resolved;
\* when an update supplies an explicit resolved, the stored resolved equals it,
\* even if a non-empty resolution is supplied in the same request.
HasResolved(doc, value) == "resolved" \in DOMAIN doc /\ doc["resolved"] = value

CreateWithResolutionResolves ==
  \A who \in tokens, studentId \in UserRefs :
    LET rsp == InfractionsPostBody(who, studentId, "n1", [resolution |-> "r1"])
    IN rsp.status = 201 => HasResolved(rsp.infractions[Len(rsp.infractions)], TRUE)

UpdateWithResolutionResolves ==
  \A who \in tokens, id \in InfractionRefs, d \in NameIn :
    LET rsp == InfractionsPutBody(who, id, d, [resolution |-> "r1"])
    IN rsp.status = 200 => HasResolved(rsp.infractions[id], TRUE)

ExplicitResolvedWins ==
  \A who \in tokens, id \in InfractionRefs, d \in NameIn, b \in ResolutionBodies :
    LET rsp == InfractionsPutBody(who, id, d, b)
    IN (rsp.status = 200 /\ "resolved" \in DOMAIN b)
         => HasResolved(rsp.infractions[id], b.resolved)

C25_ResolutionResolves ==
  /\ CreateWithResolutionResolves
  /\ UpdateWithResolutionResolves
  /\ ExplicitResolvedWins


\* ---------------------------------------------------------------------------
\* C26: in a teacher's per-student grade view, every grade of the response
\* belongs to a course whose teacherId is that teacher.
C26_TeacherSeesOwnCourses ==
  \A who \in Teachers, studentId \in UserRefs :
    LET rsp == GradesOfStudent(who, studentId)
    IN rsp.status = 200 =>
         \A g \in rsp.res : courses[grades[g].courseId].teacherId = who.id


\* ---------------------------------------------------------------------------
\* C27: for a teacher T and every combination of filters, the Course list
\* response is a subset of T's unfiltered response: it holds only courses whose
\* teacherId is T.
C27_TeacherListWithinOwn ==
  \A who \in Teachers, teacherId \in Opt(UserRefs) :
    LET filtered   == CoursesList(who, teacherId)
        unfiltered == CoursesList(who, None)
    IN /\ filtered.res \subseteq unfiltered.res
       /\ \A c \in filtered.res : courses[c].teacherId = who.id


\* ---------------------------------------------------------------------------
\* C28: there is an interleaving of two concurrent enrollment changes on the
\* same Course (enroll/enroll of different students, or enroll/unenroll), each a
\* read of the Course followed by a write of its students, in which both
\* requests report success and the final students reflects only one of the two
\* changes.  The change that is not reflected is an unenroll that read the Course
\* before the enroll of the same student wrote it, and so wrote nothing; accepted
\* changes of different students are all reflected in the final students.
Accepted(p, op) ==
  procs[p].pc = "done" /\ procs[p].op = op /\ procs[p].status = 200

\* the requests p and q are the only accepted enrollment changes
OnlyChanges(p, q) ==
  \A r \in 1..NProcs \ {p, q} : ~(procs[r].pc = "done" /\ procs[r].status = 200)

\* two accepted enrolls of different students are both in students
BothEnrollsKept ==
  \A p, q \in 1..NProcs :
    (/\ Accepted(p, "enroll") /\ Accepted(q, "enroll")
     /\ OnlyChanges(p, q)
     /\ procs[p].key[1] = procs[q].key[1]
     /\ procs[p].key[2] # procs[q].key[2])
      => /\ includes(courses[procs[p].key[1]].students, procs[p].key[2])
         /\ includes(courses[procs[p].key[1]].students, procs[q].key[2])

\* an accepted enroll and an accepted unenroll of different students are both
\* reflected once every request is answered
EnrollAndUnenrollKept ==
  \A p, q \in 1..NProcs :
    (/\ Accepted(p, "enroll") /\ Accepted(q, "unenroll")
     /\ OnlyChanges(p, q)
     /\ procs[p].key[1] = procs[q].key[1]
     /\ procs[p].key[2] # procs[q].key[2])
      => /\ includes(courses[procs[p].key[1]].students, procs[p].key[2])
         /\ ~includes(courses[procs[p].key[1]].students, procs[q].key[2])

\* an unenroll that is accepted although the Course was written between its read
\* and its save read the Course without its student: its save wrote nothing
StaleUnenrollWritesNothing ==
  \A q \in 1..NProcs :
    (Accepted(q, "unenroll") /\ procs[q].key[4])
      => ~includes(procs[q].key[3], procs[q].key[2])

NoServerErrorOnGrades ==
  \A who \in tokens, id \in GradeRefs :
    /\ GradesGet(who, id).status # 500
    /\ \A score \in ScoreIn : GradesPut(who, id, score).status # 500
    /\ GradesDelete(who, id).status # 500

NoServerErrorOnCourses ==
  \A who \in tokens, id \in CourseRefs :
    /\ CoursesGet(who, id).status # 500
    /\ CoursesDelete(who, id).status # 500
    /\ GradesOfCourseStatus(who, id) # 500

C29_ServerErrorOnlyFromStorage ==
  /\ NoServerErrorOnGrades
  /\ NoServerErrorOnCourses


\* ---------------------------------------------------------------------------
\* C30: the Grade create rejects with a validation error, and stores nothing,
\* every request whose score is missing or 0, even when the caller owns the
\* course and the student is enrolled; no Grade with score 0 is ever created by
\* the create, while the update can set the score of an existing Grade to 0.
CreateRejectsNoScore ==
  \A who \in tokens, studentId \in UserRefs, courseId \in CourseRefs,
     score \in {NoScore, 0} :
    LET rsp == GradesPost(who, studentId, courseId, score)
    IN /\ rsp.grades = grades
       /\ authorizeRoles({"admin", "teacher"}, who) => rsp.status = 400

UpdateSetsZero ==
  \A who \in tokens, id \in GradeRefs :
    LET rsp == GradesPut(who, id, 0)
    IN rsp.status = 200 => rsp.grades[id].score = 0

CreatedWithScore ==
  Len(grades') > Len(grades) =>
    /\ grades'[Len(grades')].score # 0
    /\ grades'[Len(grades')].score # NoScore

C30_CreateRejectsZeroScore ==
  /\ [](CreateRejectsNoScore /\ UpdateSetsZero)
  /\ [][CreatedWithScore]_vars

\* an update set the score of a grade to 0, and the teacher of the course is
\* refused the create with score 0 for the enrolled student
C30_Witness ==
  /\ Live(grades, 1) /\ grades[1].score = 0
  /\ Live(courses, 1) /\ courses[1].teacherId = 2
  /\ includes(courses[1].students, 4) /\ Live(users, 4)
  /\ GradesPost([id |-> 2, role |-> "teacher"], 4, 1, 0).status = 400
  /\ GradesPost([id |-> 2, role |-> "teacher"], 4, 1, 85).status = 201

=============================================================================
